---------------------------- MODULE Spec2Model ----------------------------
(***************************************************************************)
(* Model of the Shopwice backend's auth service (src/api): phone-number    *)
(* normalisation, registration, login, password-reset request and confirm. *)
(* Strings are sequences of one-character strings so that strip, replace,  *)
(* startswith, slicing and lower() do what the Python code does.           *)
(***************************************************************************)
EXTENDS Integers, Sequences, FiniteSets, TLC

VARIABLES
    accounts,       \* auth_user table: id (1..Len) -> row
    resets,         \* password_resets table: pk (1..Len) -> row
    now,            \* timezone.now(), in minutes
    req,            \* the request being answered
    resp,           \* the response of the last handler
    confirmLog,     \* history: <<reset_identifier, reset_code>> of every successful confirm
    credChangedBy,  \* history: pks of the reset rows a confirm changed a credential for
    issuedFor,      \* history: pk -> the reset_identifier its request gave, as typed
    phone_input,    \* a raw phone string handed to the normalizers
    norm_out,       \* what the four normalizers returned for phone_input
    inflight,       \* worker -> the registration it is handling and how far it has got
    registeredWith, \* history: account id -> the normalized phone it was registered with
    categories,     \* products_category table: id -> row
    category_seq,   \* the last id the products_category sequence handed out
    products        \* products_product table: id -> row

authVars == <<accounts, resets, now, confirmLog, credChangedBy, issuedFor, phone_input, norm_out>>
raceVars == <<inflight, registeredWith>>
catalogVars == <<categories, category_seq, products>>

vars == <<authVars, req, resp, raceVars, catalogVars>>

-----------------------------------------------------------------------------
(* Python string primitives *)

DigitChars == {"0", "1", "2", "3", "4", "5", "6", "7", "8", "9"}
UpperChars == {"A", "B", "D", "J", "X"}
LowerChars == {"a", "b", "c", "d", "e", "f", "g", "h", "i", "j", "k", "l", "m", "o", "u", "v", "w", "x", "y", "z"}

\* str.isdigit(): non-empty and every character a digit
IsDigit(s) == Len(s) > 0 /\ \A i \in 1..Len(s) : s[i] \in DigitChars

\* s.replace(ch, '')
Remove(s, ch) == SelectSeq(s, LAMBDA c : c # ch)

\* s.startswith(p)
StartsWith(s, p) == Len(s) >= Len(p) /\ SubSeq(s, 1, Len(p)) = p

\* s[n:]
SliceFrom(s, n) == SubSeq(s, n + 1, Len(s))

RECURSIVE LStrip(_)
LStrip(s) == IF s # <<>> /\ Head(s) = " " THEN LStrip(Tail(s)) ELSE s

RECURSIVE RStrip(_)
RStrip(s) == IF s # <<>> /\ s[Len(s)] = " " THEN RStrip(SubSeq(s, 1, Len(s) - 1)) ELSE s

\* s.strip()
Strip(s) == RStrip(LStrip(s))

LowerChar(c) ==
    CASE c = "A" -> "a"
      [] c = "B" -> "b"
      [] c = "D" -> "d"
      [] c = "J" -> "j"
      [] c = "L" -> "l"
      [] c = "M" -> "m"
      [] c = "X" -> "x"
      [] OTHER -> c

\* s.lower()
Lower(s) == [i \in 1..Len(s) |-> LowerChar(s[i])]

\* ch in s
Contains(s, ch) == \E i \in 1..Len(s) : s[i] = ch

-----------------------------------------------------------------------------
(* Phone numbers: validation and normalisation *)

CountryPrefix == <<"+", "2", "3", "3">>
CountryCode == <<"2", "3", "3">>
NationalDigits == 9
LocalDigits == 10
PhoneMaxLength == 15

\* a variant of the registration validator without the length check of the local form
Reg_validate_phone_number_no_length(value) ==
    IF Strip(value) = <<>> THEN "required"
    ELSE LET original == Strip(value) IN
         IF StartsWith(original, CountryPrefix)
         THEN LET digits_part == Remove(Remove(SliceFrom(original, 4), " "), "-")
              IN IF ~IsDigit(digits_part) \/ Len(digits_part) # NationalDigits
                 THEN "invalid_international"
                 ELSE "ok"
         ELSE LET cleaned == Remove(Remove(original, " "), "-") IN
              IF ~IsDigit(cleaned) THEN "invalid_characters"
              ELSE IF ~StartsWith(cleaned, <<"0">>) THEN "must_start_with_0"
              ELSE "ok"

\* UserRegistrationSerializer.validate_phone_number: "ok" or the error raised
Reg_validate_phone_number(value) ==
    IF Strip(value) = <<>> THEN "required"
    ELSE LET original == Strip(value) IN
         IF StartsWith(original, CountryPrefix)
         THEN LET after_code == SliceFrom(original, 4)
                  digits_part == Remove(Remove(after_code, " "), "-")
              IN IF ~IsDigit(digits_part) \/ Len(digits_part) # NationalDigits
                 THEN "invalid_international"
                 ELSE "ok"
         ELSE LET cleaned == Remove(Remove(original, " "), "-") IN
              IF Len(cleaned) # LocalDigits THEN "not_10_digits"
              ELSE IF ~IsDigit(cleaned) THEN "invalid_characters"
              ELSE IF ~StartsWith(cleaned, <<"0">>) THEN "must_start_with_0"
              ELSE "ok"

\* UserLoginSerializer.validate_phone_number: a blank value is let through
Login_validate_phone_number(value) ==
    IF Strip(value) = <<>> THEN "ok"
    ELSE LET original == Strip(value) IN
         IF StartsWith(original, CountryPrefix)
         THEN LET after_code == SliceFrom(original, 4)
                  digits_part == Remove(Remove(after_code, " "), "-")
              IN IF ~IsDigit(digits_part) \/ Len(digits_part) # NationalDigits
                 THEN "invalid_format"
                 ELSE "ok"
         ELSE LET cleaned == Remove(Remove(original, " "), "-") IN
              IF Len(cleaned) # LocalDigits THEN "not_10_digits"
              ELSE IF ~IsDigit(cleaned) THEN "invalid_characters"
              ELSE IF ~StartsWith(cleaned, <<"0">>) THEN "must_start_with_0"
              ELSE "ok"

\* a variant of the registration normalizer that forgets to drop dashes
Reg_normalize_keeps_dashes(phone_number) ==
    LET original == Strip(phone_number) IN
    IF StartsWith(original, CountryPrefix)
    THEN CountryCode \o Remove(SliceFrom(original, 4), " ")
    ELSE LET cleaned == Remove(original, " ") IN
         IF StartsWith(cleaned, <<"0">>) THEN CountryCode \o SliceFrom(cleaned, 1)
         ELSE cleaned

\* UserRegistrationSerializer.normalize_phone_number
Reg_normalize_phone_number(phone_number) ==
    LET original == Strip(phone_number) IN
    IF StartsWith(original, CountryPrefix)
    THEN LET after_code == SliceFrom(original, 4)
             digits_part == Remove(Remove(after_code, " "), "-")
         IN CountryCode \o digits_part
    ELSE LET cleaned == Remove(Remove(original, " "), "-") IN
         IF StartsWith(cleaned, <<"0">>) THEN CountryCode \o SliceFrom(cleaned, 1)
         ELSE cleaned

\* UserLoginSerializer.normalize_phone_number
Login_normalize_phone_number(phone_number) ==
    LET original == Strip(phone_number) IN
    IF StartsWith(original, CountryPrefix)
    THEN LET after_code == SliceFrom(original, 4)
             digits_part == Remove(Remove(after_code, " "), "-")
         IN CountryCode \o digits_part
    ELSE LET cleaned == Remove(Remove(original, " "), "-") IN
         IF StartsWith(cleaned, <<"0">>) THEN CountryCode \o SliceFrom(cleaned, 1)
         ELSE cleaned

\* PasswordResetRequestSerializer.normalize_phone_number
ResetRequest_normalize_phone_number(phone_number) ==
    LET original == Strip(phone_number) IN
    IF StartsWith(original, CountryPrefix)
    THEN LET after_code == SliceFrom(original, 4)
             digits_part == Remove(Remove(after_code, " "), "-")
         IN CountryCode \o digits_part
    ELSE LET cleaned == Remove(Remove(original, " "), "-") IN
         IF StartsWith(cleaned, <<"0">>) THEN CountryCode \o SliceFrom(cleaned, 1)
         ELSE cleaned

\* PasswordResetConfirmSerializer.normalize_phone_number
ResetConfirm_normalize_phone_number(phone_number) ==
    LET original == Strip(phone_number) IN
    IF StartsWith(original, CountryPrefix)
    THEN LET after_code == SliceFrom(original, 4)
             digits_part == Remove(Remove(after_code, " "), "-")
         IN CountryCode \o digits_part
    ELSE LET cleaned == Remove(Remove(original, " "), "-") IN
         IF StartsWith(cleaned, <<"0">>) THEN CountryCode \o SliceFrom(cleaned, 1)
         ELSE cleaned

-----------------------------------------------------------------------------
(* Passwords and e-mail addresses *)

MinPasswordLength == 8

\* re.search(r'[A-Z]', value) / re.search(r'[a-z]', value)
HasUpper(s) == \E i \in 1..Len(s) : s[i] \in UpperChars
HasLower(s) == \E i \in 1..Len(s) : s[i] \in LowerChars

\* a variant of the strength policy that checks the length only
validate_password_strength_length_only(value) ==
    IF Len(value) < MinPasswordLength THEN "too_short" ELSE "ok"

\* api.utils.validate_password_strength: "ok" or the error raised
validate_password_strength(value) ==
    IF Len(value) < MinPasswordLength THEN "too_short"
    ELSE IF ~HasUpper(value) THEN "no_uppercase"
    ELSE IF ~HasLower(value) THEN "no_lowercase"
    ELSE "ok"

\* django.contrib.auth.hashers.make_password: a one-way encoding of the raw password
make_password(raw) == [algorithm |-> "pbkdf2_sha256", of |-> raw]

\* a credential no raw password matches (set_unusable_password)
UnusablePassword == [algorithm |-> "!", of |-> <<>>]

\* User.check_password
check_password(raw, encoded) == encoded.algorithm = "pbkdf2_sha256" /\ encoded.of = raw

\* serializers.EmailField: one "@" with a local part and a dotted domain
IsEmailAddress(s) ==
    /\ Cardinality({i \in 1..Len(s) : s[i] = "@"}) = 1
    /\ LET at == CHOOSE i \in 1..Len(s) : s[i] = "@" IN
       /\ at > 1
       /\ \E d \in (at + 2)..(Len(s) - 1) : s[d] = "."
    /\ ~Contains(s, " ")

-----------------------------------------------------------------------------
(* The auth_user table as the ORM sees it *)

\* The lookups django.contrib.auth.models.User resolves: its columns and the
\* reverse relations 'profile' and 'password_resets' declared in api.models.
\* normalized_phone is a column of UserProfile, not of User.
UserFields ==
    {"id", "password", "last_login", "is_superuser", "username", "first_name",
     "last_name", "email", "is_staff", "is_active", "date_joined", "groups",
     "user_permissions", "profile", "password_resets"}

\* User.objects.filter(<field>=value): FieldError for a lookup User does not have
UserFilter(field, value) ==
    IF field \notin UserFields
    THEN [raised |-> "FieldError", ids |-> {}]
    ELSE [raised |-> "none", ids |-> {i \in DOMAIN accounts : accounts[i][field] = value}]

\* User.objects.get(<field>=value)
UserGet(field, value) ==
    LET q == UserFilter(field, value) IN
    IF q.raised # "none" THEN [raised |-> q.raised, id |-> 0]
    ELSE IF q.ids = {} THEN [raised |-> "DoesNotExist", id |-> 0]
    ELSE IF Cardinality(q.ids) > 1 THEN [raised |-> "MultipleObjectsReturned", id |-> 0]
    ELSE [raised |-> "none", id |-> CHOOSE i \in q.ids : TRUE]

-----------------------------------------------------------------------------
(* Registration: UserRegistrationSerializer and the user_register view *)

UsernameMaxLength == 150
FullNameMaxLength == 100
MinUsernameLength == 3
MinFullNameLength == 2

NoRequest == [op |-> "none"]
NoResponse == [op |-> "none", status |-> 0, errors |-> {}, user_id |-> 0, tokens |-> FALSE]

\* errors[key] = ... when cond
ErrIf(key, cond) == IF cond THEN {key} ELSE {}

\* Errors of the declared fields and of the validate_<field> methods, by field.
\* CharField trims surrounding whitespace before validating.
Reg_field_errors(d) ==
    LET username == Strip(d.username)
        email == Strip(d.email)
        phone == Strip(d.phone_number)
        password == Strip(d.password)
        confirm == Strip(d.confirm_password)
        full_name == Strip(d.full_name)
    IN  ErrIf("username",
              \/ Len(username) > UsernameMaxLength
              \/ /\ username # <<>>
                 /\ \/ Len(username) < MinUsernameLength
                    \/ UserFilter("username", username).ids # {})
        \cup
        ErrIf("email",
              \/ email = <<>>
              \/ ~IsEmailAddress(email)
              \/ UserFilter("email", Lower(email)).ids # {})
        \cup
        ErrIf("phone_number",
              \/ phone = <<>>
              \/ Len(phone) > PhoneMaxLength
              \/ Reg_validate_phone_number(phone) # "ok")
        \cup
        ErrIf("password",
              \/ password = <<>>
              \/ Len(password) < MinPasswordLength
              \/ validate_password_strength(password) # "ok")
        \cup
        ErrIf("confirm_password", confirm = <<>>)
        \cup
        ErrIf("full_name",
              \/ full_name = <<>>
              \/ Len(full_name) > FullNameMaxLength
              \/ Len(full_name) < MinFullNameLength)

\* The validated data the field stage hands to validate() and create()
Reg_validated(d) ==
    [username |-> Strip(d.username),
     email |-> Lower(Strip(d.email)),
     phone_number |-> Strip(d.phone_number),
     password |-> Strip(d.password),
     confirm_password |-> Strip(d.confirm_password),
     full_name |-> Strip(d.full_name)]

\* a variant of validate() without the lookup on normalized_phone
Reg_validate_without_profile_lookup(data) ==
    [raised |-> "none",
     errors |-> ErrIf("confirm_password", data.password # data.confirm_password)
                \cup ErrIf("phone_number",
                           UserFilter("username",
                                      Reg_normalize_phone_number(data.phone_number)).ids # {})]

\* UserRegistrationSerializer.validate: the errors it collects, or the exception
\* that leaves it.  The second filter names normalized_phone, which raises
\* FieldError: validate() catches serializers.ValidationError only.
Reg_validate(data) ==
    LET mismatch == ErrIf("confirm_password", data.password # data.confirm_password)
    IN  IF data.phone_number = <<>>
        THEN [raised |-> "none", errors |-> mismatch]
        ELSE LET normalized_phone == Reg_normalize_phone_number(data.phone_number)
                 by_username == UserFilter("username", normalized_phone)
                 by_profile == UserFilter("normalized_phone", normalized_phone)
             IN  IF by_profile.raised # "none"
                 THEN [raised |-> by_profile.raised, errors |-> {}]
                 ELSE [raised |-> "none",
                       errors |-> mismatch
                                  \cup ErrIf("phone_number", by_username.ids # {})
                                  \cup ErrIf("phone_number", by_profile.ids # {})]

\* full_name.strip().split(' ', 1)
FirstName(full_name) ==
    IF Contains(full_name, " ")
    THEN SubSeq(full_name, 1, (CHOOSE i \in 1..Len(full_name) :
                                 /\ full_name[i] = " "
                                 /\ \A j \in 1..(i - 1) : full_name[j] # " ") - 1)
    ELSE full_name

LastName(full_name) ==
    IF Contains(full_name, " ")
    THEN SliceFrom(full_name, CHOOSE i \in 1..Len(full_name) :
                                 /\ full_name[i] = " "
                                 /\ \A j \in 1..(i - 1) : full_name[j] # " ")
    ELSE <<>>

\* UserRegistrationSerializer.create: the row User.objects.create() is given
Reg_create(data) ==
    LET normalized_phone == Reg_normalize_phone_number(data.phone_number)
        final_username == IF Strip(data.username) # <<>> THEN Strip(data.username)
                          ELSE normalized_phone
    IN  [username |-> final_username,
         email |-> data.email,
         first_name |-> FirstName(data.full_name),
         last_name |-> LastName(data.full_name),
         password |-> make_password(data.password),
         is_active |-> TRUE]

\* a variant of the view that stores the row before validate() has passed
user_register_saves_before_validate(d) ==
    LET ferr == Reg_field_errors(d)
        data == Reg_validated(d)
        v == Reg_validate(data)
    IN  IF ferr # {}
        THEN [resp |-> [op |-> "register", status |-> 400, errors |-> ferr,
                        user_id |-> 0, tokens |-> FALSE],
              rows |-> <<>>]
        ELSE IF v.raised # "none"
        THEN [resp |-> [op |-> "register", status |-> 500, errors |-> {},
                        user_id |-> 0, tokens |-> FALSE],
              rows |-> <<Reg_create(data)>>]
        ELSE [resp |-> [op |-> "register", status |-> 400, errors |-> v.errors,
                        user_id |-> 0, tokens |-> FALSE],
              rows |-> <<Reg_create(data)>>]

\* views.user_register: the response and the rows it adds to auth_user
user_register(d) ==
    LET ferr == Reg_field_errors(d)
        data == Reg_validated(d)
        v == Reg_validate(data)
        row == Reg_create(data)
    IN  IF ferr # {}
        THEN [resp |-> [op |-> "register", status |-> 400, errors |-> ferr,
                        user_id |-> 0, tokens |-> FALSE],
              rows |-> <<>>]
        ELSE IF v.raised # "none"
        THEN [resp |-> [op |-> "register", status |-> 500, errors |-> {},
                        user_id |-> 0, tokens |-> FALSE],
              rows |-> <<>>]
        ELSE IF v.errors # {}
        THEN [resp |-> [op |-> "register", status |-> 400, errors |-> v.errors,
                        user_id |-> 0, tokens |-> FALSE],
              rows |-> <<>>]
        ELSE IF UserFilter("username", row.username).ids # {}
        THEN \* auth_user.username is unique: IntegrityError
             [resp |-> [op |-> "register", status |-> 500, errors |-> {},
                        user_id |-> 0, tokens |-> FALSE],
              rows |-> <<>>]
        ELSE [resp |-> [op |-> "register", status |-> 201, errors |-> {},
                        user_id |-> Len(accounts) + 1, tokens |-> TRUE],
              rows |-> <<row>>]

Register(username, email, phone_number, password, confirm_password, full_name) ==
    LET d == [op |-> "register", username |-> username, email |-> email,
              phone_number |-> phone_number, password |-> password,
              confirm_password |-> confirm_password, full_name |-> full_name]
        out == user_register(d)
    IN  /\ req = NoRequest
        /\ req' = d
        /\ resp' = out.resp
        /\ accounts' = accounts \o out.rows
        /\ UNCHANGED <<resets, now, confirmLog, credChangedBy, issuedFor, phone_input, norm_out, raceVars, catalogVars>>

-----------------------------------------------------------------------------
(* Login: UserLoginSerializer and the login_user view *)

Login_field_errors(d) ==
    LET email == Strip(d.email)
        phone == Strip(d.phone_number)
        password == Strip(d.password)
    IN  ErrIf("email", email # <<>> /\ ~IsEmailAddress(email))
        \cup
        ErrIf("phone_number",
              \/ Len(phone) > PhoneMaxLength
              \/ Login_validate_phone_number(phone) # "ok")
        \cup
        ErrIf("password", password = <<>>)

\* a variant of the credential check that skips check_password
Login_check_user_without_password(user, password) ==
    IF ~accounts[user].is_active
    THEN [raised |-> "none", errors |-> {"non_field_errors"}, user |-> 0]
    ELSE [raised |-> "none", errors |-> {}, user |-> user]

\* a variant of the credential check that looks at is_active first
Login_check_user_active_first(user, password) ==
    IF ~accounts[user].is_active
    THEN [raised |-> "none", errors |-> {"non_field_errors"}, user |-> 0]
    ELSE IF ~check_password(password, accounts[user].password)
    THEN [raised |-> "none", errors |-> {" Password"}, user |-> 0]
    ELSE [raised |-> "none", errors |-> {}, user |-> user]

\* UserLoginSerializer.validate, once a user is resolved: password, then is_active
Login_check_user(user, password) ==
    IF ~check_password(password, accounts[user].password)
    THEN [raised |-> "none", errors |-> {" Password"}, user |-> 0]
    ELSE IF ~accounts[user].is_active
    THEN [raised |-> "none", errors |-> {"non_field_errors"}, user |-> 0]
    ELSE [raised |-> "none", errors |-> {}, user |-> user]

\* a variant of validate that lets a request with both identifiers through to the e-mail lookup
Login_validate_allows_both(data) ==
    LET email == Strip(data.email)
        phone_number == Strip(data.phone_number)
        password == data.password
    IN  IF email = <<>> /\ phone_number = <<>>
        THEN [raised |-> "none", errors |-> {"non_field_errors"}, user |-> 0]
        ELSE IF password = <<>>
        THEN [raised |-> "none", errors |-> {"password"}, user |-> 0]
        ELSE
        LET by_email == UserGet("email", email)
            by_username == UserGet("username", Login_normalize_phone_number(phone_number))
        IN  IF email # <<>>
            THEN IF by_email.raised # "none"
                 THEN [raised |-> "none", errors |-> {"email"}, user |-> 0]
                 ELSE Login_check_user(by_email.id, password)
            ELSE IF by_username.raised = "none"
                 THEN Login_check_user(by_username.id, password)
                 ELSE [raised |-> "none", errors |-> {"phone_number"}, user |-> 0]

\* UserLoginSerializer.validate: errors, an escaping exception, or the user (0 is None)
Login_validate(data) ==
    LET email == Strip(data.email)
        phone_number == Strip(data.phone_number)
        password == data.password
    IN  IF email = <<>> /\ phone_number = <<>>
        THEN [raised |-> "none", errors |-> {"non_field_errors"}, user |-> 0]
        ELSE IF email # <<>> /\ phone_number # <<>>
        THEN [raised |-> "none", errors |-> {"non_field_errors"}, user |-> 0]
        ELSE IF password = <<>>
        THEN [raised |-> "none", errors |-> {"password"}, user |-> 0]
        ELSE
        LET by_email == UserGet("email", email)
            normalized_phone == Login_normalize_phone_number(phone_number)
            by_username == UserGet("username", normalized_phone)
            by_profile == UserGet("normalized_phone", normalized_phone)
        IN  IF email # <<>>
            THEN IF by_email.raised = "DoesNotExist"
                 THEN [raised |-> "none", errors |-> {"email"}, user |-> 0]
                 ELSE IF by_email.raised # "none"
                 THEN [raised |-> by_email.raised, errors |-> {}, user |-> 0]
                 ELSE Login_check_user(by_email.id, password)
            ELSE \* phone_number: any exception of the two lookups is "not found"
                 IF by_username.raised = "none"
                 THEN Login_check_user(by_username.id, password)
                 ELSE IF by_profile.raised # "none"
                 THEN [raised |-> "none", errors |-> {"phone_number"}, user |-> 0]
                 ELSE \* the profile lookup binds 'profile', never 'user': user stays None
                      [raised |-> "none", errors |-> {}, user |-> 0]

\* views.login_user
login_user(d) ==
    LET ferr == Login_field_errors(d)
        data == [email |-> Lower(Strip(d.email)), phone_number |-> Strip(d.phone_number),
                 password |-> Strip(d.password)]
        v == Login_validate(data)
    IN  IF ferr # {}
        THEN [op |-> "login", status |-> 400, errors |-> ferr, user_id |-> 0, tokens |-> FALSE]
        ELSE IF v.raised # "none"
        THEN [op |-> "login", status |-> 500, errors |-> {}, user_id |-> 0, tokens |-> FALSE]
        ELSE IF v.errors # {}
        THEN [op |-> "login", status |-> 400, errors |-> v.errors, user_id |-> 0, tokens |-> FALSE]
        ELSE IF v.user = 0
        THEN \* RefreshToken.for_user(None) raises
             [op |-> "login", status |-> 500, errors |-> {}, user_id |-> 0, tokens |-> FALSE]
        ELSE [op |-> "login", status |-> 200, errors |-> {}, user_id |-> v.user, tokens |-> TRUE]

Login(email, phone_number, password) ==
    LET d == [op |-> "login", email |-> email, phone_number |-> phone_number,
              password |-> password]
    IN  /\ req = NoRequest
        /\ req' = d
        /\ resp' = login_user(d)
        /\ UNCHANGED <<accounts, resets, now, confirmLog, credChangedBy, issuedFor, phone_input, norm_out, raceVars, catalogVars>>

-----------------------------------------------------------------------------
(* Password reset: the PasswordReset model *)

ResetTTLMinutes == 15
ResetCodeLength == 6
IdentifierMaxLength == 255
NullTime == -1

\* PasswordReset.objects.create(user=..., phone_number=...) followed by save():
\* reset_code is what generate_reset_code() drew, expires_at is now + 15 minutes
PasswordReset_create(user, identifier, generated_code) ==
    [user |-> user,
     reset_code |-> generated_code,
     phone_number |-> identifier,
     is_used |-> FALSE,
     created_at |-> now,
     expires_at |-> now + ResetTTLMinutes,
     used_at |-> NullTime]

\* a variant of is_expired with the comparison turned round
PasswordReset_is_expired_reversed(reset) == now < reset.expires_at

\* PasswordReset.is_expired
PasswordReset_is_expired(reset) == now > reset.expires_at

\* a variant of mark_as_used that sets the flag without the time
PasswordReset_mark_as_used_untimed(reset) == [reset EXCEPT !.is_used = TRUE]

\* PasswordReset.mark_as_used
PasswordReset_mark_as_used(reset) == [reset EXCEPT !.is_used = TRUE, !.used_at = now]

\* PasswordReset.objects.get(phone_number=..., reset_code=..., is_used=False)
PasswordReset_get(lookup_value, reset_code) ==
    LET pks == {k \in DOMAIN resets : /\ resets[k].phone_number = lookup_value
                                      /\ resets[k].reset_code = reset_code
                                      /\ resets[k].is_used = FALSE}
    IN  IF pks = {} THEN [raised |-> "DoesNotExist", pk |-> 0]
        ELSE IF Cardinality(pks) > 1 THEN [raised |-> "MultipleObjectsReturned", pk |-> 0]
        ELSE [raised |-> "none", pk |-> CHOOSE k \in pks : TRUE]

\* is_email of both reset serializers
is_email(identifier) == Contains(identifier, "@")

-----------------------------------------------------------------------------
(* Password reset request: PasswordResetRequestSerializer and its view *)

\* PasswordResetRequestSerializer.validate: the user the row is created for.
\* By phone, a username miss goes on to User.objects.get(normalized_phone=...),
\* whose FieldError the 'except User.DoesNotExist' does not catch.
ResetRequest_validate(value) ==
    LET reset_identifier == Strip(value.reset_identifier)
        by_email == UserGet("email", Lower(reset_identifier))
        normalized == ResetRequest_normalize_phone_number(reset_identifier)
        by_username == UserGet("username", normalized)
        by_profile == UserGet("normalized_phone", normalized)
    IN  IF reset_identifier = <<>>
        THEN [raised |-> "none", errors |-> {"reset_identifier"}, user |-> 0]
        ELSE IF is_email(reset_identifier)
        THEN IF by_email.raised = "DoesNotExist"
             THEN [raised |-> "none", errors |-> {"reset_identifier"}, user |-> 0]
             ELSE IF by_email.raised # "none"
             THEN [raised |-> by_email.raised, errors |-> {}, user |-> 0]
             ELSE [raised |-> "none", errors |-> {}, user |-> by_email.id]
        ELSE IF by_username.raised = "none"
             THEN [raised |-> "none", errors |-> {}, user |-> by_username.id]
             ELSE IF by_profile.raised = "DoesNotExist"
             THEN [raised |-> "none", errors |-> {"reset_identifier"}, user |-> 0]
             ELSE IF by_profile.raised # "none"
             THEN [raised |-> by_profile.raised, errors |-> {}, user |-> 0]
             ELSE \* the profile lookup binds 'profile': user stays None, and the
                  \* insert of a row with user_id NULL raises IntegrityError
                  [raised |-> "IntegrityError", errors |-> {}, user |-> 0]

\* PasswordResetRequestSerializer.create: the identifier stored in phone_number
ResetRequest_identifier_for_storage(reset_identifier) ==
    IF is_email(reset_identifier) THEN reset_identifier
    ELSE ResetRequest_normalize_phone_number(reset_identifier)

\* PasswordResetRequestView.post: the response and the rows added to password_resets
password_reset_request(d, generated_code) ==
    LET reset_identifier == Strip(d.reset_identifier)
        v == ResetRequest_validate([reset_identifier |-> reset_identifier])
    IN  IF reset_identifier = <<>> \/ Len(reset_identifier) > IdentifierMaxLength
        THEN [resp |-> [op |-> "reset_request", status |-> 400, errors |-> {"reset_identifier"},
                        user_id |-> 0, tokens |-> FALSE],
              rows |-> <<>>]
        ELSE IF v.raised # "none"
        THEN [resp |-> [op |-> "reset_request", status |-> 500, errors |-> {},
                        user_id |-> 0, tokens |-> FALSE],
              rows |-> <<>>]
        ELSE IF v.errors # {}
        THEN [resp |-> [op |-> "reset_request", status |-> 400, errors |-> v.errors,
                        user_id |-> 0, tokens |-> FALSE],
              rows |-> <<>>]
        ELSE [resp |-> [op |-> "reset_request", status |-> 200, errors |-> {},
                        user_id |-> 0, tokens |-> FALSE],
              rows |-> <<PasswordReset_create(v.user,
                            ResetRequest_identifier_for_storage(reset_identifier),
                            generated_code)>>]

-----------------------------------------------------------------------------
(* Password reset confirm: PasswordResetConfirmSerializer and its view *)

ResetConfirm_field_errors(d) ==
    ErrIf("reset_identifier",
          Strip(d.reset_identifier) = <<>> \/ Len(Strip(d.reset_identifier)) > IdentifierMaxLength)
    \cup ErrIf("reset_code",
          Strip(d.reset_code) = <<>> \/ Len(Strip(d.reset_code)) > ResetCodeLength)
    \cup ErrIf("new_password",
          Strip(d.new_password) = <<>> \/ Len(Strip(d.new_password)) < MinPasswordLength)
    \cup ErrIf("confirm_password", Strip(d.confirm_password) = <<>>)

\* PasswordResetConfirmSerializer.validate: the lookup value for the identifier
ResetConfirm_lookup_value(reset_identifier) ==
    IF is_email(reset_identifier) THEN Lower(reset_identifier)
    ELSE ResetConfirm_normalize_phone_number(reset_identifier)

\* PasswordResetConfirmSerializer.validate: errors, an escaping exception, or the
\* pk of the reset row (reset_obj)
ResetConfirm_validate(data) ==
    LET reset_identifier == Strip(data.reset_identifier)
        reset_code == Strip(data.reset_code)
        new_password == data.new_password
        confirm_password == data.confirm_password
        errors == ErrIf("reset_identifier", reset_identifier = <<>>)
                  \cup ErrIf("reset_code", reset_code = <<>>)
                  \cup ErrIf("new_password", new_password = <<>>)
                  \cup ErrIf("confirm_password", confirm_password = <<>>)
                  \cup ErrIf("confirm_password",
                             /\ new_password # <<>> /\ confirm_password # <<>>
                             /\ new_password # confirm_password)
                  \cup ErrIf("new_password",
                             /\ new_password # <<>>
                             /\ validate_password_strength(new_password) # "ok")
        found == PasswordReset_get(ResetConfirm_lookup_value(reset_identifier), reset_code)
    IN  IF errors # {}
        THEN [raised |-> "none", errors |-> errors, reset_obj |-> 0]
        ELSE IF found.raised = "DoesNotExist"
        THEN [raised |-> "none", errors |-> {"non_field_errors"}, reset_obj |-> 0]
        ELSE IF found.raised # "none"
        THEN [raised |-> found.raised, errors |-> {}, reset_obj |-> 0]
        ELSE IF PasswordReset_is_expired(resets[found.pk])
        THEN [raised |-> "none", errors |-> {"non_field_errors"}, reset_obj |-> 0]
        ELSE [raised |-> "none", errors |-> {}, reset_obj |-> found.pk]

\* PasswordResetConfirmSerializer.save, first write: user.set_password(); user.save()
ResetConfirm_save_user(reset_obj, new_password) ==
    [accounts EXCEPT ![resets[reset_obj].user].password = make_password(new_password)]

\* a variant of the second write that marks every code of the account used
ResetConfirm_save_reset_of_user(reset_obj) ==
    [k \in DOMAIN resets |->
        IF resets[k].user = resets[reset_obj].user
        THEN PasswordReset_mark_as_used(resets[k]) ELSE resets[k]]

\* PasswordResetConfirmSerializer.save, second write: reset_obj.mark_as_used()
ResetConfirm_save_reset(reset_obj) ==
    [resets EXCEPT ![reset_obj] = PasswordReset_mark_as_used(resets[reset_obj])]

\* PasswordResetConfirmView.post.  The two writes of save() are separate
\* autocommitted statements: second_write_fails is the case where the second
\* raises (the database refuses it) after the first is stored.
password_reset_confirm(d, second_write_fails) ==
    LET ferr == ResetConfirm_field_errors(d)
        data == [reset_identifier |-> Strip(d.reset_identifier), reset_code |-> Strip(d.reset_code),
                 new_password |-> Strip(d.new_password),
                 confirm_password |-> Strip(d.confirm_password)]
        v == ResetConfirm_validate(data)
        failed(status, errors) ==
            [resp |-> [op |-> "reset_confirm", status |-> status, errors |-> errors,
                       user_id |-> 0, tokens |-> FALSE],
             accounts |-> accounts, resets |-> resets, used |-> 0, changed |-> 0]
    IN  IF ferr # {} THEN failed(400, ferr)
        ELSE IF v.raised # "none" THEN failed(500, {})
        ELSE IF v.errors # {} THEN failed(400, v.errors)
        ELSE IF second_write_fails
        THEN [resp |-> [op |-> "reset_confirm", status |-> 500, errors |-> {},
                        user_id |-> 0, tokens |-> FALSE],
              accounts |-> ResetConfirm_save_user(v.reset_obj, data.new_password),
              resets |-> resets, used |-> 0, changed |-> v.reset_obj]
        ELSE [resp |-> [op |-> "reset_confirm", status |-> 200, errors |-> {},
                        user_id |-> 0, tokens |-> FALSE],
              accounts |-> ResetConfirm_save_user(v.reset_obj, data.new_password),
              resets |-> ResetConfirm_save_reset(v.reset_obj),
              used |-> v.reset_obj, changed |-> v.reset_obj]

-----------------------------------------------------------------------------
(* Request data the handlers are driven with *)

Phone1National == <<"5", "0", "1", "2", "3", "4", "5", "6", "7">>
Phone2National == <<"5", "0", "1", "2", "3", "4", "5", "6", "8">>
Phone1Local == <<"0">> \o Phone1National
Phone1Intl == CountryPrefix \o Phone1National
Phone1Dashed == <<"0", "5", "0", " ", "1", "2", "3", "-", "4", "5", "6", "7">>
Phone2Local == <<"0">> \o Phone2National
Phone1Key == CountryCode \o Phone1National
Phone2Key == CountryCode \o Phone2National
PhoneTooShort == <<"0", "5", "0", "1", "2", "3", "4", "5", "6">>
PhoneNoZero == <<"5", "5", "0", "1", "2", "3", "4", "5", "6", "7">>
PhoneLetter == <<"0", "5", "0", "1", "2", "3", "4", "5", "6", "x">>
PhoneIntlLong == CountryPrefix \o Phone1National \o <<"7">>

EmailA == <<"a", "@", "x", ".", "c", "o">>
EmailAUpper == <<"A", "@", "X", ".", "c", "o">>
EmailB == <<"b", "@", "x", ".", "c", "o">>
EmailC == <<"c", "@", "x", ".", "c", "o">>
EmailBad == <<"a", "x", ".", "c", "o">>

PwA == <<"A", "b", "c", "d", "e", "f", "1", "2">>
PwB == <<"X", "y", "z", "u", "v", "w", "9", "9">>
PwNoUpper == <<"a", "b", "c", "d", "e", "f", "g", "h">>
PwShort == <<"A", "b", "c", "d", "e", "f", "1">>

Bob == <<"b", "o", "b">>
Kim == <<"k", "i", "m">>
Al == <<"a", "l">>
JaneDoe == <<"J", "o", " ", "D", "o", "e">>

RegUsernames == {<<>>, Bob, Kim, Al, Phone2Key}
RegEmails == {EmailA, EmailAUpper, EmailC, EmailBad}
RegPhones == {Phone1Local, Phone1Intl, Phone1Dashed, Phone2Local, PhoneTooShort, PhoneLetter}
RegPasswords == {PwA, PwNoUpper, PwShort}
RegConfirms == {PwA, PwNoUpper}
RegFullNames == {JaneDoe, <<"J">>}

LoginEmails == {<<>>, EmailA, EmailAUpper, EmailB, EmailC, EmailBad}
LoginPhones == {<<>>, Phone1Local, Phone1Intl, Phone1Dashed, Phone2Local, PhoneTooShort, PhoneNoZero}
LoginPasswords == {<<>>, PwA, PwB}

-----------------------------------------------------------------------------
(* The accounts the service starts with.  Rows of auth_user written before
   these handlers ran: the "old users" whose username is their normalized
   phone, and accounts with a chosen username. *)

StoredPasswords == {make_password(PwA), make_password(PwB), UnusablePassword}

OldPhoneUser(password, is_active) ==
    [username |-> Phone1Key, email |-> EmailA, first_name |-> <<"J", "o">>,
     last_name |-> <<"D", "o", "e">>, password |-> password, is_active |-> is_active]

NamedUser(password, is_active) ==
    [username |-> Bob, email |-> EmailB, first_name |-> Bob,
     last_name |-> <<>>, password |-> password, is_active |-> is_active]

InitialAccounts ==
    {<<>>}
    \cup {<<OldPhoneUser(p, a)>> : p \in StoredPasswords, a \in BOOLEAN}
    \cup {<<NamedUser(p, a)>> : p \in StoredPasswords, a \in BOOLEAN}
    \cup {<<OldPhoneUser(p, a), NamedUser(q, b)>> :
            p \in StoredPasswords, a \in BOOLEAN, q \in {make_password(PwA)}, b \in BOOLEAN}

\* no worker is handling a registration
NoRegistrationsInFlight ==
    /\ inflight = <<>>
    /\ registeredWith = <<>>

\* the catalogue tables are empty
NoCatalog ==
    /\ categories = <<>>
    /\ category_seq = 0
    /\ products = <<>>

NoNormalized == [registration |-> <<>>, login |-> <<>>, reset_request |-> <<>>, reset_confirm |-> <<>>]

Init ==
    /\ accounts \in InitialAccounts
    /\ resets = <<>>
    /\ now = 0
    /\ req = NoRequest
    /\ resp = NoResponse
    /\ confirmLog = <<>>
    /\ credChangedBy = {}
    /\ issuedFor = <<>>
    /\ phone_input = <<>>
    /\ norm_out = NoNormalized
    /\ NoRegistrationsInFlight
    /\ NoCatalog

MaxResets == 2
MaxNow == 16

ResetRequest(reset_identifier, generated_code) ==
    LET d == [op |-> "reset_request", reset_identifier |-> reset_identifier]
        out == password_reset_request(d, generated_code)
    IN  /\ req = NoRequest
        /\ Len(resets) < MaxResets
        /\ req' = d
        /\ resp' = out.resp
        /\ resets' = resets \o out.rows
        /\ issuedFor' = IF out.rows = <<>> THEN issuedFor ELSE Append(issuedFor, reset_identifier)
        /\ UNCHANGED <<accounts, now, confirmLog, credChangedBy, phone_input, norm_out, raceVars, catalogVars>>

ConfirmStep(reset_identifier, reset_code, new_password, confirm_password, second_write_fails) ==
    LET d == [op |-> "reset_confirm", reset_identifier |-> reset_identifier,
              reset_code |-> reset_code, new_password |-> new_password,
              confirm_password |-> confirm_password]
        out == password_reset_confirm(d, second_write_fails)
    IN  /\ req = NoRequest
        /\ req' = d
        /\ resp' = out.resp
        /\ accounts' = out.accounts
        /\ resets' = out.resets
        /\ confirmLog' = IF out.used = 0 THEN confirmLog
                         ELSE Append(confirmLog, <<reset_identifier, reset_code>>)
        /\ credChangedBy' = IF out.changed = 0 THEN credChangedBy
                            ELSE credChangedBy \cup {out.changed}
        /\ UNCHANGED <<now, issuedFor, phone_input, norm_out, raceVars, catalogVars>>

ResetConfirm(reset_identifier, reset_code, new_password, confirm_password) ==
    ConfirmStep(reset_identifier, reset_code, new_password, confirm_password, FALSE)

\* The confirm handler when the write of mark_as_used() fails
ResetConfirmSecondWriteFails(reset_identifier, reset_code, new_password, confirm_password) ==
    /\ password_reset_confirm([reset_identifier |-> reset_identifier, reset_code |-> reset_code,
                               new_password |-> new_password,
                               confirm_password |-> confirm_password], TRUE).changed # 0
    /\ ConfirmStep(reset_identifier, reset_code, new_password, confirm_password, TRUE)

\* Time passes between requests: by the lifetime of a code, or a minute more
Tick ==
    /\ req = NoRequest
    /\ \E d \in {ResetTTLMinutes, ResetTTLMinutes + 1} :
          /\ now + d <= MaxNow
          /\ now' = now + d
    /\ UNCHANGED <<accounts, resets, req, resp, confirmLog, credChangedBy, issuedFor,
                   phone_input, norm_out, raceVars, catalogVars>>

RegisterAny ==
    \E u \in RegUsernames, e \in RegEmails, p \in RegPhones, pw \in RegPasswords,
       c \in RegConfirms, f \in RegFullNames : Register(u, e, p, pw, c, f)

LoginAny ==
    \E e \in LoginEmails, p \in LoginPhones, pw \in LoginPasswords : Login(e, p, pw)

\* The view returns its Response: the worker is free for the next request
Return ==
    /\ req # NoRequest
    /\ req' = NoRequest
    /\ resp' = NoResponse
    /\ UNCHANGED <<accounts, resets, now, confirmLog, credChangedBy, issuedFor, phone_input, norm_out, raceVars, catalogVars>>

Next == RegisterAny \/ LoginAny \/ Return

Spec == Init /\ [][Next]_vars

-----------------------------------------------------------------------------
(* The reset service on its own: requests, confirms and the clock *)

Code1 == <<"1", "1", "1", "1", "1", "1">>
Code2 == <<"2", "2", "2", "2", "2", "2">>
ResetCodes == {Code1, Code2}
ResetIdentifiers == {EmailA, EmailAUpper, EmailB, Phone1Local, Phone2Local}
ConfirmIdentifiers == {EmailA, EmailAUpper, Phone1Intl}
ConfirmPasswords == {<<PwB, PwB>>, <<PwB, PwA>>, <<PwNoUpper, PwNoUpper>>}

ResetInitialAccounts ==
    {<<OldPhoneUser(make_password(PwA), TRUE), NamedUser(make_password(PwA), TRUE)>>}

InitReset ==
    /\ accounts \in ResetInitialAccounts
    /\ resets = <<>>
    /\ now = 0
    /\ req = NoRequest
    /\ resp = NoResponse
    /\ confirmLog = <<>>
    /\ credChangedBy = {}
    /\ issuedFor = <<>>
    /\ phone_input = <<>>
    /\ norm_out = NoNormalized
    /\ NoRegistrationsInFlight
    /\ NoCatalog

ResetRequestAny == \E x \in ResetIdentifiers, c \in ResetCodes : ResetRequest(x, c)

ResetConfirmAny ==
    \E x \in ConfirmIdentifiers, c \in ResetCodes, pw \in ConfirmPasswords :
        ResetConfirm(x, c, pw[1], pw[2])

ResetConfirmFaultAny ==
    \E x \in ConfirmIdentifiers, c \in ResetCodes, pw \in ConfirmPasswords :
        ResetConfirmSecondWriteFails(x, c, pw[1], pw[2])

NextReset == ResetRequestAny \/ ResetConfirmAny \/ Tick \/ Return

SpecReset == InitReset /\ [][NextReset]_vars

NextFault == NextReset \/ ResetConfirmFaultAny

SpecFault == InitReset /\ [][NextFault]_vars

\* Accounts and the phone each was registered with.  The phone is stored
\* nowhere (create() writes no profile), so registeredWith keeps it beside the
\* table: an old user whose username is the key of its own phone, or an account
\* registered with the second phone under a chosen username that is the key of
\* the first.
OwnerInitialAccounts ==
    {[rows |-> <<OldPhoneUser(make_password(PwA), TRUE)>>, phones |-> <<Phone1Key>>],
     [rows |-> <<OldPhoneUser(make_password(PwA), TRUE)>>, phones |-> <<Phone2Key>>],
     [rows |-> <<NamedUser(make_password(PwA), TRUE)>>, phones |-> <<Phone2Key>>]}

InitOwner ==
    /\ \E a \in OwnerInitialAccounts : accounts = a.rows /\ registeredWith = a.phones
    /\ resets = <<>>
    /\ now = 0
    /\ req = NoRequest
    /\ resp = NoResponse
    /\ confirmLog = <<>>
    /\ credChangedBy = {}
    /\ issuedFor = <<>>
    /\ phone_input = <<>>
    /\ norm_out = NoNormalized
    /\ inflight = <<>>
    /\ NoCatalog

\* the owner of a phone registers with it
RegisterOwner ==
    \E p \in {Phone1Local, Phone2Local} : Register(<<>>, EmailC, p, PwA, PwA, JaneDoe)

NextOwner == LoginAny \/ ResetRequestAny \/ RegisterOwner \/ Return

SpecOwner == InitOwner /\ [][NextOwner]_vars

\* Registration and reset confirm side by side: the two handlers that store a credential
CredentialPairs == {<<PwA, PwA>>, <<PwNoUpper, PwNoUpper>>, <<PwA, PwNoUpper>>}

RegisterCredential ==
    \E pw \in CredentialPairs : Register(<<>>, EmailC, Phone2Local, pw[1], pw[2], JaneDoe)

NextCred == ResetRequestAny \/ ResetConfirmAny \/ RegisterCredential \/ Return

SpecCred == InitReset /\ [][NextCred]_vars

-----------------------------------------------------------------------------
(* Registrations handled by several workers at once.  Each query and each
   write is its own autocommitted statement, so the stages of two handlers
   interleave: the field validators, validate(), then save(). *)

RaceWorkers == 2

Workers == 1..RaceWorkers

Idle == [pc |-> "idle", d |-> NoRequest, resp |-> NoResponse]

RaceUsernames == {<<>>, Kim}
RaceEmails == {EmailB, EmailC}
RacePhones == {Phone1Local, Phone2Local}

RaceInitialAccounts == {<<>>, <<OldPhoneUser(make_password(PwA), TRUE)>>}

InitRace ==
    /\ accounts \in RaceInitialAccounts
    /\ resets = <<>>
    /\ now = 0
    /\ req = NoRequest
    /\ resp = NoResponse
    /\ confirmLog = <<>>
    /\ credChangedBy = {}
    /\ issuedFor = <<>>
    /\ phone_input = <<>>
    /\ norm_out = NoNormalized
    /\ inflight = [w \in Workers |-> Idle]
    /\ registeredWith = [i \in DOMAIN accounts |-> accounts[i].username]
    /\ NoCatalog

\* a worker takes a registration request
RegReceive(w, username, email, phone_number) ==
    /\ inflight[w].pc = "idle"
    /\ inflight' = [inflight EXCEPT ![w] =
                       [pc |-> "fields",
                        d |-> [op |-> "register", username |-> username, email |-> email,
                               phone_number |-> phone_number, password |-> PwA,
                               confirm_password |-> PwA, full_name |-> JaneDoe],
                        resp |-> NoResponse]]
    /\ UNCHANGED <<authVars, req, resp, registeredWith, catalogVars>>

\* the worker has its response: the view returns
RegFinished(w, status, errors, user_id) ==
    [inflight EXCEPT ![w].pc = "done",
                     ![w].resp = [op |-> "register", status |-> status, errors |-> errors,
                                  user_id |-> user_id, tokens |-> status = 201]]

\* views.user_register, one stage at a time: is_valid() runs the field validators
\* and then validate(); save() runs create(), whose INSERT the unique index on
\* auth_user.username may refuse
RegStep(w) ==
    LET d == inflight[w].d
        data == Reg_validated(d)
        ferr == Reg_field_errors(d)
        v == Reg_validate(data)
        row == Reg_create(data)
    IN  /\ inflight[w].pc \in {"fields", "validate", "save"}
        /\ IF inflight[w].pc = "fields"
           THEN /\ inflight' = IF ferr # {} THEN RegFinished(w, 400, ferr, 0)
                               ELSE [inflight EXCEPT ![w].pc = "validate"]
                /\ UNCHANGED <<accounts, registeredWith>>
           ELSE IF inflight[w].pc = "validate"
           THEN /\ inflight' = IF v.raised # "none" THEN RegFinished(w, 500, {}, 0)
                               ELSE IF v.errors # {} THEN RegFinished(w, 400, v.errors, 0)
                               ELSE [inflight EXCEPT ![w].pc = "save"]
                /\ UNCHANGED <<accounts, registeredWith>>
           ELSE IF UserFilter("username", row.username).ids # {}
           THEN /\ inflight' = RegFinished(w, 500, {}, 0)
                /\ UNCHANGED <<accounts, registeredWith>>
           ELSE /\ accounts' = Append(accounts, row)
                /\ registeredWith' = Append(registeredWith,
                                            Reg_normalize_phone_number(data.phone_number))
                /\ inflight' = RegFinished(w, 201, {}, Len(accounts) + 1)
        /\ UNCHANGED <<resets, now, req, resp, confirmLog, credChangedBy, issuedFor,
                       phone_input, norm_out, catalogVars>>

\* the response is sent and the worker is free again
RegRespond(w) ==
    /\ inflight[w].pc = "done"
    /\ inflight' = [inflight EXCEPT ![w] = Idle]
    /\ UNCHANGED <<authVars, req, resp, registeredWith, catalogVars>>

RegReceiveAny ==
    \E w \in Workers, u \in RaceUsernames, e \in RaceEmails, p \in RacePhones :
        RegReceive(w, u, e, p)

RegStepAny == \E w \in Workers : RegStep(w)

RegRespondAny == \E w \in Workers : RegRespond(w)

NextRace == RegReceiveAny \/ RegStepAny \/ RegRespondAny

SpecRace == InitRace /\ [][NextRace]_vars

-----------------------------------------------------------------------------
(* The phone handling on its own: raw strings of many shapes are normalized,
   and sent to registration and to login *)

FreeDigits == 2
MaxSeparators == 1

ReferenceDigits == <<"5", "0", "1", "2", "3", "4", "5", "6", "7", "8">>
VaryChars == {"0", "5", "x"}
PhonePrefixes == {<<>>, <<"0">>, CountryPrefix, CountryCode}

\* digit strings of length n: FreeDigits varying characters, then fixed digits
PhoneBodies(n) ==
    {f \o SubSeq(ReferenceDigits, FreeDigits + 1, n) : f \in [1..FreeDigits -> VaryChars]}

InsertAt(s, p, c) == SubSeq(s, 1, p) \o <<c>> \o SubSeq(s, p + 1, Len(s))

RECURSIVE WithSeparators(_, _)
WithSeparators(S, n) ==
    IF n = 0 THEN S
    ELSE S \cup WithSeparators(
             UNION {{InsertAt(s, p, c) : p \in 0..Len(s), c \in {" ", "-"}} : s \in S}, n - 1)

PhoneUniverse ==
    WithSeparators(
        UNION {{pre \o b : pre \in PhonePrefixes, b \in PhoneBodies(n)} :
                  n \in NationalDigits..(NationalDigits + 1)},
        MaxSeparators)

InitPhone ==
    /\ accounts = <<OldPhoneUser(make_password(PwA), TRUE)>>
    /\ resets = <<>>
    /\ now = 0
    /\ req = NoRequest
    /\ resp = NoResponse
    /\ confirmLog = <<>>
    /\ credChangedBy = {}
    /\ issuedFor = <<>>
    /\ phone_input \in PhoneUniverse
    /\ norm_out = NoNormalized
    /\ NoRegistrationsInFlight
    /\ NoCatalog

\* each serializer's normalize_phone_number applied to the same raw string
NormalizeInput ==
    /\ req = NoRequest
    /\ norm_out = NoNormalized
    /\ norm_out' = [registration |-> Reg_normalize_phone_number(phone_input),
                    login |-> Login_normalize_phone_number(phone_input),
                    reset_request |-> ResetRequest_normalize_phone_number(phone_input),
                    reset_confirm |-> ResetConfirm_normalize_phone_number(phone_input)]
    /\ UNCHANGED <<accounts, resets, now, req, resp, confirmLog, credChangedBy, issuedFor,
                   phone_input, raceVars, catalogVars>>

RegisterInput ==
    \E u \in {<<>>, Kim} : Register(u, EmailC, phone_input, PwA, PwA, JaneDoe)

LoginInput ==
    \E e \in {<<>>, EmailA} : Login(e, phone_input, PwA)

NextPhone == NormalizeInput \/ RegisterInput \/ LoginInput \/ Return

SpecPhone == InitPhone /\ [][NextPhone]_vars

-----------------------------------------------------------------------------
(* The catalogue (src/products): categories form a forest through parent;
   every product belongs to one category.  Views import the serializers by
   name, so the definitions in force are the last ones of serializers.py. *)

NoParent == 0
CategoryNameMaxLength == 100
MinCategoryNameLength == 2

SlugChars == DigitChars \cup LowerChars \cup UpperChars \cup {"-", "_"}

\* SlugField: letters, digits, underscores and hyphens only
IsSlug(s) == s # <<>> /\ \A i \in 1..Len(s) : s[i] \in SlugChars

RECURSIVE CollapseDashes(_)
\* re.sub(r'[-\s]+', '-', s)
CollapseDashes(s) ==
    IF s = <<>> THEN <<>>
    ELSE IF Head(s) \in {" ", "-"}
    THEN IF Tail(s) # <<>> /\ Head(Tail(s)) \in {" ", "-"}
         THEN CollapseDashes(Tail(s))
         ELSE <<"-">> \o CollapseDashes(Tail(s))
    ELSE <<Head(s)>> \o CollapseDashes(Tail(s))

RECURSIVE StripDashes(_)
\* s.strip('-_')
StripDashes(s) ==
    IF s # <<>> /\ Head(s) \in {"-", "_"} THEN StripDashes(Tail(s))
    ELSE IF s # <<>> /\ s[Len(s)] \in {"-", "_"} THEN StripDashes(SubSeq(s, 1, Len(s) - 1))
    ELSE s

\* django.utils.text.slugify: lower case, drop what is not a word character,
\* space or hyphen, turn runs of spaces and hyphens into one hyphen
slugify(value) ==
    StripDashes(CollapseDashes(
        SelectSeq(Lower(value), LAMBDA c : c \in SlugChars \cup {" "})))

\* the rows other than instance (0 on create) that hold value in field
CategoryOthersWith(field, value, instance) ==
    {c \in DOMAIN categories : c # instance /\ categories[c][field] = value}

RECURSIVE Category_walk_up(_, _, _)
\* the loop of _is_descendant: "yes" when the chain reaches ancestor, "no" when it
\* ends; on a chain that never ends the loop does not return ("loops")
Category_walk_up(current, ancestor, fuel) ==
    IF current = NoParent THEN "no"
    ELSE IF current = ancestor THEN "yes"
    ELSE IF fuel = 0 THEN "loops"
    ELSE Category_walk_up(categories[current].parent, ancestor, fuel - 1)

\* a variant of _is_descendant that looks at the direct parent only
Category_is_descendant_one_level(ancestor, potential_descendant) ==
    IF categories[potential_descendant].parent = ancestor THEN "yes" ELSE "no"

\* CategoryCreateUpdateSerializer._is_descendant
Category_is_descendant(ancestor, potential_descendant) ==
    Category_walk_up(categories[potential_descendant].parent, ancestor,
                     Cardinality(DOMAIN categories))

\* a variant of validate_parent that compares with the instance only
Category_validate_parent_self_only(instance, value) ==
    IF value # NoParent /\ instance # 0 /\ value = instance THEN "own_parent" ELSE "ok"

\* CategoryCreateUpdateSerializer.validate_parent: "ok" or the error raised
Category_validate_parent(instance, value) ==
    IF value # NoParent /\ instance # 0
    THEN IF value = instance THEN "own_parent"
         ELSE IF Category_is_descendant(instance, value) = "yes" THEN "descendant"
         ELSE IF Category_is_descendant(instance, value) = "loops" THEN "loops"
         ELSE "ok"
    ELSE "ok"

\* Errors of the model fields (required, blank, unique, related row exists) and of
\* validate_name and validate_parent, by field.  d.given holds the keys sent.
Category_field_errors(instance, d, partial) ==
    LET name == Strip(d.name)
        slug == Strip(d.slug)
    IN  ErrIf("name",
              IF "name" \in d.given
              THEN \/ name = <<>>
                   \/ Len(name) > CategoryNameMaxLength
                   \/ CategoryOthersWith("name", name, instance) # {}
                   \/ Len(name) < MinCategoryNameLength
              ELSE ~partial)
        \cup
        ErrIf("slug",
              IF "slug" \in d.given
              THEN \/ ~IsSlug(slug)
                   \/ CategoryOthersWith("slug", slug, instance) # {}
              ELSE ~partial)
        \cup
        ErrIf("parent",
              /\ "parent" \in d.given
              /\ \/ d.parent # NoParent /\ d.parent \notin DOMAIN categories
                 \/ /\ d.parent \in DOMAIN categories
                    /\ Category_validate_parent(instance, d.parent)
                           \in {"own_parent", "descendant"})

\* CategoryCreateUpdateSerializer.validate: the validated data, with the slug
\* made from the name when a name came without a slug, or the slug error
Category_validate(instance, d) ==
    LET name == IF "name" \in d.given THEN Strip(d.name) ELSE <<>>
        sent == IF "slug" \in d.given THEN Strip(d.slug) ELSE <<>>
        made == name # <<>> /\ sent = <<>>
        slug == IF made THEN slugify(name) ELSE sent
        data == [d EXCEPT !.name = name, !.slug = slug,
                          !.given = IF made THEN d.given \cup {"slug"} ELSE d.given]
    IN  IF slug # <<>> /\ CategoryOthersWith("slug", slug, instance) # {}
        THEN [errors |-> {"slug"}, data |-> data]
        ELSE [errors |-> {}, data |-> data]

\* ModelSerializer.create: Category.objects.create(**validated_data)
Category_create(data) ==
    [name |-> data.name,
     slug |-> data.slug,
     parent |-> IF "parent" \in data.given THEN data.parent ELSE NoParent,
     is_active |-> IF "is_active" \in data.given THEN data.is_active ELSE TRUE]

\* ModelSerializer.update: setattr for every validated key, then instance.save()
Category_update(row, data) ==
    [name |-> IF "name" \in data.given THEN data.name ELSE row.name,
     slug |-> IF "slug" \in data.given THEN data.slug ELSE row.slug,
     parent |-> IF "parent" \in data.given THEN data.parent ELSE row.parent,
     is_active |-> IF "is_active" \in data.given THEN data.is_active ELSE row.is_active]

\* a catalogue response: errors by field, and the body of a retrieve
CatalogResponse(op, status, errors, body) ==
    [op |-> op, status |-> status, errors |-> errors, body |-> body]

NoBody == <<>>

RECURSIVE Category_breadcrumbs_leaf_first(_, _, _)
\* a variant of the breadcrumb loop that appends instead of inserting in front
Category_breadcrumbs_leaf_first(current, breadcrumbs, fuel) ==
    IF current = NoParent THEN [loops |-> FALSE, trail |-> breadcrumbs]
    ELSE IF fuel = 0 THEN [loops |-> TRUE, trail |-> <<>>]
    ELSE Category_breadcrumbs_leaf_first(
             categories[current].parent,
             breadcrumbs \o <<[id |-> current, name |-> categories[current].name,
                               slug |-> categories[current].slug]>>,
             fuel - 1)

RECURSIVE Category_breadcrumbs_from(_, _, _)
\* the loop of get_breadcrumbs: each category is put in front of the ones below it
Category_breadcrumbs_from(current, breadcrumbs, fuel) ==
    IF current = NoParent THEN [loops |-> FALSE, trail |-> breadcrumbs]
    ELSE IF fuel = 0 THEN [loops |-> TRUE, trail |-> <<>>]
    ELSE Category_breadcrumbs_from(
             categories[current].parent,
             <<[id |-> current, name |-> categories[current].name,
                slug |-> categories[current].slug]>> \o breadcrumbs,
             fuel - 1)

\* CategoryDetailSerializer.get_breadcrumbs
Category_get_breadcrumbs(obj) ==
    Category_breadcrumbs_from(obj, <<>>, Cardinality(DOMAIN categories))

\* ProductDetailSerializer.get_category_breadcrumbs
Product_get_category_breadcrumbs(obj) ==
    Category_breadcrumbs_from(products[obj].category, <<>>, Cardinality(DOMAIN categories))

\* the order of the characters of the names in the model, as the database
\* compares them
Collation == <<"A", "L", "M", "a", "c", "d", "g", "h", "i", "j", "v", "x">>

CharRank(ch) == CHOOSE i \in 1..Len(Collation) : Collation[i] = ch

RECURSIVE NameAtMost(_, _)
\* a <= b as the database orders names
NameAtMost(a, b) ==
    IF a = <<>> THEN TRUE
    ELSE IF b = <<>> THEN FALSE
    ELSE IF Head(a) # Head(b) THEN CharRank(Head(a)) < CharRank(Head(b))
    ELSE NameAtMost(Tail(a), Tail(b))

RECURSIVE Category_ordered(_)
\* Category.Meta.ordering = ['name']: the rows of S as a queryset yields them
Category_ordered(S) ==
    IF S = {} THEN <<>>
    ELSE LET first == CHOOSE x \in S :
                         \A y \in S : NameAtMost(categories[x].name, categories[y].name)
         IN  <<first>> \o Category_ordered(S \ {first})

\* category.children.filter(is_active=True)
Category_active_children(category) ==
    Category_ordered({c \in DOMAIN categories :
                        categories[c].parent = category /\ categories[c].is_active})

RECURSIVE Category_descendant_ids_of(_, _)
RECURSIVE Category_descendant_ids_from(_, _)
\* the for loop of _get_descendant_ids over the children that are left; depth
\* is the number of calls the interpreter still allows
Category_descendant_ids_from(children, depth) ==
    IF children = <<>> THEN [overflow |-> FALSE, ids |-> <<>>]
    ELSE LET below == Category_descendant_ids_of(Head(children), depth - 1)
             rest == Category_descendant_ids_from(Tail(children), depth)
         IN  [overflow |-> below.overflow \/ rest.overflow,
              ids |-> <<Head(children)>> \o below.ids \o rest.ids]

\* one call of _get_descendant_ids; overflow is the RecursionError of a walk
\* that comes back to where it was
Category_descendant_ids_of(category, depth) ==
    IF depth = 0 THEN [overflow |-> TRUE, ids |-> <<>>]
    ELSE Category_descendant_ids_from(Category_active_children(category), depth)

\* CategoryDetailSerializer._get_descendant_ids
Category_get_descendant_ids(category) ==
    Category_descendant_ids_of(category, Cardinality(DOMAIN categories) + 1)

\* CategoryDetailSerializer.get_product_count
Category_get_product_count(obj) ==
    LET ids == Category_get_descendant_ids(obj).ids
    IN  Cardinality({q \in DOMAIN products :
                        /\ products[q].category \in {ids[i] : i \in 1..Len(ids)} \cup {obj}
                        /\ products[q].is_active})

RECURSIVE Category_collect(_)
\* Collector.collect: the rows a delete takes with it through on_delete=CASCADE
Category_collect(objs) ==
    LET children == {c \in DOMAIN categories : categories[c].parent \in objs} \ objs
    IN  IF children = {} THEN objs ELSE Category_collect(objs \cup children)

\* the products whose on_delete=PROTECT reference stops the delete of objs
Category_protected_by(objs) == {q \in DOMAIN products : products[q].category \in objs}

\* CategoryViewSet.create
category_create(d) ==
    LET ferr == Category_field_errors(0, d, FALSE)
        v == Category_validate(0, d)
        pk == category_seq + 1
    IN  IF ferr # {}
        THEN [resp |-> CatalogResponse("category_create", 400, ferr, NoBody),
              categories |-> categories, seq |-> category_seq]
        ELSE IF v.errors # {}
        THEN [resp |-> CatalogResponse("category_create", 400, v.errors, NoBody),
              categories |-> categories, seq |-> category_seq]
        ELSE [resp |-> CatalogResponse("category_create", 201, {}, NoBody),
              categories |-> [c \in DOMAIN categories \cup {pk} |->
                                 IF c = pk THEN Category_create(v.data) ELSE categories[c]],
              seq |-> pk]

\* CategoryViewSet.update and partial_update
category_update(pk, d, partial) ==
    LET op == IF partial THEN "category_partial_update" ELSE "category_update"
        ferr == Category_field_errors(pk, d, partial)
        v == Category_validate(pk, d)
    IN  IF pk \notin DOMAIN categories
        THEN [resp |-> CatalogResponse(op, 404, {}, NoBody), categories |-> categories]
        ELSE IF /\ "parent" \in d.given /\ d.parent \in DOMAIN categories
                /\ Category_validate_parent(pk, d.parent) = "loops"
        THEN \* the walk up the parents never ends: no response
             [resp |-> CatalogResponse(op, 0, {}, NoBody), categories |-> categories]
        ELSE IF ferr # {}
        THEN [resp |-> CatalogResponse(op, 400, ferr, NoBody), categories |-> categories]
        ELSE IF v.errors # {}
        THEN [resp |-> CatalogResponse(op, 400, v.errors, NoBody), categories |-> categories]
        ELSE [resp |-> CatalogResponse(op, 200, {}, NoBody),
              categories |-> [categories EXCEPT ![pk] = Category_update(categories[pk], v.data)]]

\* a variant of destroy that deletes although products reference the rows
category_destroy_unprotected(pk) ==
    IF pk \notin DOMAIN categories
    THEN [resp |-> CatalogResponse("category_destroy", 404, {}, NoBody),
          categories |-> categories]
    ELSE [resp |-> CatalogResponse("category_destroy", 204, {}, NoBody),
          categories |-> [c \in DOMAIN categories \ Category_collect({pk}) |-> categories[c]]]

\* CategoryViewSet.destroy (the mixin's: instance.delete()).  The delete takes the
\* children with it; a product on any of these rows raises ProtectedError.
category_destroy(pk) ==
    IF pk \notin DOMAIN categories
    THEN [resp |-> CatalogResponse("category_destroy", 404, {}, NoBody),
          categories |-> categories]
    ELSE IF Category_protected_by(Category_collect({pk})) # {}
    THEN [resp |-> CatalogResponse("category_destroy", 500, {}, NoBody),
          categories |-> categories]
    ELSE [resp |-> CatalogResponse("category_destroy", 204, {}, NoBody),
          categories |-> [c \in DOMAIN categories \ Category_collect({pk}) |-> categories[c]]]

\* CategoryViewSet.retrieve: of the detail serializer's fields, the breadcrumbs
category_retrieve(pk) ==
    IF pk \notin DOMAIN categories
    THEN CatalogResponse("category_retrieve", 404, {}, NoBody)
    ELSE IF Category_get_descendant_ids(pk).overflow
    THEN \* RecursionError in get_product_count
         CatalogResponse("category_retrieve", 500, {}, NoBody)
    ELSE IF Category_get_breadcrumbs(pk).loops
    THEN \* while current never ends: no response
         CatalogResponse("category_retrieve", 0, {}, NoBody)
    ELSE CatalogResponse("category_retrieve", 200, {},
                         [product_count |-> Category_get_product_count(pk),
                          breadcrumbs |-> Category_get_breadcrumbs(pk).trail])

-----------------------------------------------------------------------------
(* Products: ProductViewSet and ProductCreateUpdateSerializer *)

\* discount_price is NULL
NoDiscount == -1

\* data.get('price') when the validated data has no price
NoPrice == 0

\* Meta.fields of ProductCreateUpdateSerializer that can be written.  The class
\* body runs on after validate() into a second Meta, with model = Category, and
\* the later binding of Meta is the one the serializer reads.
ProductSerializerFields == {"name", "slug", "description", "parent", "is_active"}

\* ProductViewSet.get_queryset: the products a detail route can find
Product_queryset == {q \in DOMAIN products : products[q].is_active}

\* the products other than instance with this slug
ProductOthersWithSlug(slug, instance) ==
    {q \in DOMAIN products \ {instance} : products[q].slug = slug}

\* Errors of the fields built from Meta (required, blank, the UniqueValidators of
\* Category.name and Category.slug, which leave out the row with the instance's
\* pk) and of validate_name.  Keys that are no field of the serializer are dropped.
Product_field_errors(instance, d, partial) ==
    LET given == d.given \cap ProductSerializerFields
        name == Strip(d.name)
        slug == Strip(d.slug)
    IN  ErrIf("name",
              IF "name" \in given
              THEN \/ name = <<>>
                   \/ Len(name) > CategoryNameMaxLength
                   \/ CategoryOthersWith("name", name, instance) # {}
                   \/ Len(name) < MinCategoryNameLength
              ELSE ~partial)
        \cup
        ErrIf("slug",
              IF "slug" \in given
              THEN \/ ~IsSlug(slug)
                   \/ CategoryOthersWith("slug", slug, instance) # {}
              ELSE ~partial)

\* ProductCreateUpdateSerializer.validate on the validated data: the slug made
\* from the name, the slug looked up among the products, the discount compared
\* with the price when both are in the data, and availability_status set from
\* data.get('track_inventory', True) and data.get('stock_quantity', 0)
Product_validate(instance, d) ==
    LET given == d.given \cap ProductSerializerFields
        name == IF "name" \in given THEN Strip(d.name) ELSE <<>>
        sent == IF "slug" \in given THEN Strip(d.slug) ELSE <<>>
        made == name # <<>> /\ sent = <<>>
        slug == IF made THEN slugify(name) ELSE sent
        price == IF "price" \in given THEN d.price ELSE NoPrice
        discount_price == IF "discount_price" \in given THEN d.discount_price ELSE NoDiscount
        track_inventory == IF "track_inventory" \in given THEN d.track_inventory ELSE TRUE
        stock_quantity == IF "stock_quantity" \in given THEN d.stock_quantity ELSE 0
        status == IF track_inventory /\ stock_quantity <= 0 THEN "out_of_stock"
                  ELSE IF ~track_inventory THEN "in_stock"
                  ELSE "unset"
        data == [given |-> (IF made THEN given \cup {"slug"} ELSE given)
                           \cup (IF status = "unset" THEN {} ELSE {"availability_status"}),
                 name |-> name, slug |-> slug, is_active |-> d.is_active,
                 availability_status |-> status]
    IN  IF slug # <<>> /\ ProductOthersWithSlug(slug, instance) # {}
        THEN [errors |-> {"slug"}, data |-> data]
        ELSE IF /\ price # NoPrice
                /\ discount_price \notin {NoDiscount, 0}
                /\ discount_price >= price
        THEN [errors |-> {"discount_price"}, data |-> data]
        ELSE [errors |-> {}, data |-> data]

\* ModelSerializer.update on a Product: setattr for every validated key, then
\* instance.save(); parent is no column of Product and is not stored
Product_update(row, data) ==
    [row EXCEPT
       !.name = IF "name" \in data.given THEN data.name ELSE @,
       !.slug = IF "slug" \in data.given THEN data.slug ELSE @,
       !.is_active = IF "is_active" \in data.given THEN data.is_active ELSE @,
       !.availability_status =
           IF "availability_status" \in data.given THEN data.availability_status ELSE @]

\* ProductViewSet.create: ModelSerializer.create calls
\* Category.objects.create(**validated_data) with availability_status among the
\* keys, which is no field of Category: TypeError, nothing is written.
product_create(d) ==
    LET ferr == Product_field_errors(0, d, FALSE)
        v == Product_validate(0, d)
    IN  IF ferr # {} THEN CatalogResponse("product_create", 400, ferr, NoBody)
        ELSE IF v.errors # {} THEN CatalogResponse("product_create", 400, v.errors, NoBody)
        ELSE CatalogResponse("product_create", 500, {}, NoBody)

\* ProductViewSet.update and partial_update: the row is saved, then
\* serializer.data calls get_children_count on the product: AttributeError.
product_update(pk, d, partial) ==
    LET op == IF partial THEN "product_partial_update" ELSE "product_update"
        ferr == Product_field_errors(pk, d, partial)
        v == Product_validate(pk, d)
    IN  IF pk \notin Product_queryset
        THEN [resp |-> CatalogResponse(op, 404, {}, NoBody), products |-> products]
        ELSE IF ferr # {}
        THEN [resp |-> CatalogResponse(op, 400, ferr, NoBody), products |-> products]
        ELSE IF v.errors # {}
        THEN [resp |-> CatalogResponse(op, 400, v.errors, NoBody), products |-> products]
        ELSE [resp |-> CatalogResponse(op, 500, {}, NoBody),
              products |-> [products EXCEPT ![pk] = Product_update(products[pk], v.data)]]

\* ProductViewSet.destroy (the mixin's: instance.delete())
product_destroy(pk) ==
    IF pk \notin Product_queryset
    THEN [resp |-> CatalogResponse("product_destroy", 404, {}, NoBody),
          products |-> products]
    ELSE [resp |-> CatalogResponse("product_destroy", 204, {}, NoBody),
          products |-> [q \in DOMAIN products \ {pk} |-> products[q]]]

\* ProductViewSet.retrieve: of the detail serializer's fields, the breadcrumbs
product_retrieve(pk) ==
    IF pk \notin Product_queryset
    THEN CatalogResponse("product_retrieve", 404, {}, NoBody)
    ELSE IF Product_get_category_breadcrumbs(pk).loops
    THEN CatalogResponse("product_retrieve", 0, {}, NoBody)
    ELSE CatalogResponse("product_retrieve", 200, {},
                         [breadcrumbs |-> Product_get_category_breadcrumbs(pk).trail])

\* the decimal digits in order: the digit at place n stands for n - 1
DecimalDigits == <<"0", "1", "2", "3", "4", "5", "6", "7", "8", "9">>

DigitValue(ch) == (CHOOSE n \in 1..Len(DecimalDigits) : DecimalDigits[n] = ch) - 1

RECURSIVE DecimalValue(_)
DecimalValue(s) ==
    IF s = <<>> THEN 0
    ELSE 10 * DecimalValue(SubSeq(s, 1, Len(s) - 1)) + DigitValue(s[Len(s)])

\* float(text) for the texts of the model: a run of digits is its value, any
\* other text raises ValueError
ParseFloat(text) ==
    IF IsDigit(text) THEN [ok |-> TRUE, value |-> DecimalValue(text)]
    ELSE [ok |-> FALSE, value |-> 0]

\* query_params.get(name) and its test: a parameter that is absent or empty
NoParam == <<>>

TrueText == <<"t", "r", "u", "e">>

\* queryset.filter(price__gte=float(min_price)) inside try / except ValueError
Product_filter_min_price(rows, min_price) ==
    IF min_price # NoParam /\ ParseFloat(min_price).ok
    THEN {q \in rows : products[q].price >= ParseFloat(min_price).value}
    ELSE rows

\* queryset.filter(price__lte=float(max_price)) inside try / except ValueError
Product_filter_max_price(rows, max_price) ==
    IF max_price # NoParam /\ ParseFloat(max_price).ok
    THEN {q \in rows : products[q].price <= ParseFloat(max_price).value}
    ELSE rows

\* Q(track_inventory=False) | Q(track_inventory=True, stock_quantity__gt=0)
Product_filter_in_stock(rows, in_stock_only) ==
    IF in_stock_only # NoParam /\ Lower(in_stock_only) = TrueText
    THEN {q \in rows : \/ ~products[q].track_inventory
                       \/ products[q].track_inventory /\ products[q].stock_quantity > 0}
    ELSE rows

\* ProductViewSet.get_queryset.  The on_sale branch names F, which the module
\* does not import: NameError.
Product_get_queryset(params) ==
    LET rows == Product_filter_in_stock(
                    Product_filter_max_price(
                        Product_filter_min_price(Product_queryset, params.min_price),
                        params.max_price),
                    params.in_stock_only)
    IN  IF params.on_sale # NoParam /\ Lower(params.on_sale) = TrueText
        THEN [error |-> "NameError", rows |-> {}]
        ELSE [error |-> "none", rows |-> rows]

\* ProductViewSet.list: of the answer, the ids of the products listed
product_list(params) ==
    IF Product_get_queryset(params).error # "none"
    THEN CatalogResponse("product_list", 500, {}, NoBody)
    ELSE CatalogResponse("product_list", 200, {},
                         [ids |-> Product_get_queryset(params).rows])

RECURSIVE Product_ordered(_)
\* Product.Meta.ordering = ['-created_at']: the newest row first; rows are
\* created in the order of their pks
Product_ordered(S) ==
    IF S = {} THEN <<>>
    ELSE LET newest == CHOOSE x \in S : \A y \in S : y <= x
         IN  <<newest>> \o Product_ordered(S \ {newest})

\* queryset[:n]
Take(rows, n) == SubSeq(rows, 1, IF Len(rows) < n THEN Len(rows) ELSE n)

\* the most the recommendations hold
MaxRecommendations == 4

\* recommendations: Product.objects.filter(category=product.category,
\* is_active=True).exclude(id=product.id)[:4]
Product_same_category(product) ==
    Take(Product_ordered({q \in DOMAIN products \ {product} :
                            /\ products[q].category = products[product].category
                            /\ products[q].is_active}),
         MaxRecommendations)

\* a variant of same_brand that does not leave out the products already chosen
Product_same_brand_again(product, chosen) ==
    Take(Product_ordered({q \in DOMAIN products \ {product} :
                            /\ products[q].brand = products[product].brand
                            /\ products[q].is_active}),
         MaxRecommendations - Len(chosen))

\* recommendations: Product.objects.filter(brand=product.brand, is_active=True)
\* .exclude(id__in=[p.id for p in same_category] + [product.id])[:4 - count]
Product_same_brand(product, chosen) ==
    Take(Product_ordered({q \in DOMAIN products \ {product} :
                            /\ products[q].brand = products[product].brand
                            /\ products[q].is_active
                            /\ \A i \in 1..Len(chosen) : chosen[i] # q}),
         MaxRecommendations - Len(chosen))

\* ProductViewSet.recommendations: of the answer, the ids in the order given
product_recommendations(pk) ==
    IF pk \notin Product_queryset
    THEN CatalogResponse("product_recommendations", 404, {}, NoBody)
    ELSE LET same_category == Product_same_category(pk)
         IN  CatalogResponse("product_recommendations", 200, {},
                 [ids |-> IF Len(same_category) < MaxRecommendations
                          THEN same_category \o Product_same_brand(pk, same_category)
                          ELSE same_category])

\* query in s, whatever the case of the letters (icontains)
IContains(s, query) ==
    \E i \in 1..(Len(s) - Len(query) + 1) :
        Lower(SubSeq(s, i, i + Len(query) - 1)) = Lower(query)

\* ProductViewSet.search: of the answer, the ids of the products found
product_search(query) ==
    IF query = <<>>
    THEN CatalogResponse("product_search", 400, {"error"}, NoBody)
    ELSE CatalogResponse("product_search", 200, {},
             [ids |-> {q \in DOMAIN products :
                         /\ \/ IContains(products[q].name, query)
                            \/ IContains(products[q].description, query)
                            \/ IContains(products[q].brand, query)
                            \/ IContains(products[q].sku, query)
                         /\ products[q].is_active}])

\* the most the featured products hold
MaxFeatured == 10

\* ProductViewSet.featured: of the answer, the ids in the order given
product_featured ==
    CatalogResponse("product_featured", 200, {},
        [ids |-> Take(Product_ordered({q \in DOMAIN products :
                                         /\ products[q].is_featured
                                         /\ products[q].is_active}),
                      MaxFeatured)])

\* get_object() of a detail route: filter_queryset(get_queryset()) reads the
\* query parameters of the request, then the row is looked up by pk
Product_get_object(params, pk) ==
    IF Product_get_queryset(params).error # "none" THEN 500
    ELSE IF pk \notin Product_get_queryset(params).rows THEN 404
    ELSE 200

\* a detail route called with query parameters: what get_object() answers, or
\* what the handler does with the row it found
product_detail(op, params, pk, found) ==
    IF Product_get_object(params, pk) # 200
    THEN [resp |-> CatalogResponse(op, Product_get_object(params, pk), {}, NoBody),
          products |-> products]
    ELSE found

-----------------------------------------------------------------------------
(* Category requests, handled one at a time *)

MaxCategories == 3

CategoryPks == 1..MaxCategories

Av == <<"A", "v">>
Dj == <<"d", "j">>
Hi == <<"h", "i">>

CategoryLabels ==
    {[name |-> Av, slug |-> <<"a", "v">>], [name |-> Dj, slug |-> <<"d", "j">>],
     [name |-> Hi, slug |-> <<"h", "i">>], [name |-> <<"x">>, slug |-> <<"x">>]}

\* bodies of POST and PUT: name, slug and parent (null is NoParent)
CategoryBodies ==
    {[given |-> {"name", "slug", "parent"}, name |-> l.name, slug |-> l.slug,
      parent |-> p, is_active |-> TRUE] : l \in CategoryLabels, p \in {NoParent} \cup CategoryPks}

\* bodies of PATCH: one key each
CategoryPatches ==
    {[given |-> {"parent"}, name |-> <<>>, slug |-> <<>>, parent |-> p, is_active |-> TRUE] :
        p \in {NoParent} \cup CategoryPks}
    \cup
    {[given |-> {"is_active"}, name |-> <<>>, slug |-> <<>>, parent |-> NoParent,
      is_active |-> a] : a \in BOOLEAN}
    \cup
    {[given |-> {"name"}, name |-> l.name, slug |-> <<>>, parent |-> NoParent,
      is_active |-> TRUE] : l \in CategoryLabels}

InitTree ==
    /\ accounts = <<>>
    /\ resets = <<>>
    /\ now = 0
    /\ req = NoRequest
    /\ resp = NoResponse
    /\ confirmLog = <<>>
    /\ credChangedBy = {}
    /\ issuedFor = <<>>
    /\ phone_input = <<>>
    /\ norm_out = NoNormalized
    /\ NoRegistrationsInFlight
    /\ NoCatalog

CategoryCreate(d) ==
    /\ req = NoRequest
    /\ category_seq < MaxCategories
    /\ req' = [op |-> "category_create", pk |-> 0, d |-> d]
    /\ resp' = category_create(d).resp
    /\ categories' = category_create(d).categories
    /\ category_seq' = category_create(d).seq
    /\ UNCHANGED <<authVars, raceVars, products>>

CategoryUpdate(pk, d) ==
    /\ req = NoRequest
    /\ req' = [op |-> "category_update", pk |-> pk, d |-> d]
    /\ resp' = category_update(pk, d, FALSE).resp
    /\ categories' = category_update(pk, d, FALSE).categories
    /\ UNCHANGED <<authVars, raceVars, category_seq, products>>

CategoryPartialUpdate(pk, d) ==
    /\ req = NoRequest
    /\ req' = [op |-> "category_partial_update", pk |-> pk, d |-> d]
    /\ resp' = category_update(pk, d, TRUE).resp
    /\ categories' = category_update(pk, d, TRUE).categories
    /\ UNCHANGED <<authVars, raceVars, category_seq, products>>

CategoryDestroy(pk) ==
    /\ req = NoRequest
    /\ req' = [op |-> "category_destroy", pk |-> pk]
    /\ resp' = category_destroy(pk).resp
    /\ categories' = category_destroy(pk).categories
    /\ UNCHANGED <<authVars, raceVars, category_seq, products>>

CategoryRetrieve(pk) ==
    /\ req = NoRequest
    /\ req' = [op |-> "category_retrieve", pk |-> pk]
    /\ resp' = category_retrieve(pk)
    /\ UNCHANGED <<authVars, raceVars, catalogVars>>

CategoryCreateAny == \E d \in CategoryBodies : CategoryCreate(d)

CategoryUpdateAny == \E pk \in CategoryPks, d \in CategoryBodies : CategoryUpdate(pk, d)

CategoryPartialUpdateAny ==
    \E pk \in CategoryPks, d \in CategoryPatches : CategoryPartialUpdate(pk, d)

CategoryDestroyAny == \E pk \in CategoryPks : CategoryDestroy(pk)

CategoryRetrieveAny == \E pk \in CategoryPks : CategoryRetrieve(pk)

NextTree ==
    \/ CategoryCreateAny
    \/ CategoryUpdateAny
    \/ CategoryPartialUpdateAny
    \/ CategoryDestroyAny
    \/ CategoryRetrieveAny
    \/ Return

SpecTree == InitTree /\ [][NextTree]_vars

-----------------------------------------------------------------------------
(* What the claims speak of, stated without the serializers' own helpers *)

SeparatorChars == {" ", "-"}

\* the digits of a string, in order
DigitsOf(s) == SelectSeq(s, LAMBDA c : c \in DigitChars)

\* the last n characters
LastN(s, n) == SubSeq(s, Len(s) - n + 1, Len(s))

\* s with its spaces and dashes dropped
Unseparated(s) == SelectSeq(s, LAMBDA c : c \notin SeparatorChars)

\* '+233' followed by exactly 9 digits
IsInternationalForm(s) ==
    /\ Len(s) = Len(CountryPrefix) + NationalDigits
    /\ SubSeq(s, 1, Len(CountryPrefix)) = CountryPrefix
    /\ \A i \in (Len(CountryPrefix) + 1)..Len(s) : s[i] \in DigitChars

\* a 10-digit string starting with '0'
IsLocalForm(s) ==
    /\ Len(s) = LocalDigits
    /\ s[1] = "0"
    /\ \A i \in 1..Len(s) : s[i] \in DigitChars

\* the canonical key 233XXXXXXXXX of a phone given in either form
CanonicalKey(s) == CountryCode \o LastN(DigitsOf(s), NationalDigits)

AcceptedPhone(s) == IsInternationalForm(Unseparated(s)) \/ IsLocalForm(Unseparated(s))

\* the accounts a login request names: by e-mail, or by phone held as username
NamedByLogin(r) ==
    IF Strip(r.email) # <<>>
    THEN {i \in DOMAIN accounts : accounts[i].email = Lower(Strip(r.email))}
    ELSE {i \in DOMAIN accounts : accounts[i].username = CanonicalKey(r.phone_number)}

\* a login request with exactly one well-formed identifier and a password
WellFormedLogin(r) ==
    /\ r.op = "login"
    /\ r.password # <<>>
    /\ \/ Strip(r.email) # <<>> /\ IsEmailAddress(Strip(r.email)) /\ Strip(r.phone_number) = <<>>
       \/ Strip(r.email) = <<>> /\ Strip(r.phone_number) # <<>>
          /\ AcceptedPhone(r.phone_number) /\ Len(Strip(r.phone_number)) <= PhoneMaxLength

\* a registration request every field of which is acceptable on its own
WellFormedRegistration(r) ==
    /\ r.op = "register"
    /\ IsEmailAddress(Strip(r.email))
    /\ AcceptedPhone(r.phone_number) /\ Len(Strip(r.phone_number)) <= PhoneMaxLength
    /\ validate_password_strength(r.password) = "ok"
    /\ r.confirm_password = r.password
    /\ Len(Strip(r.full_name)) >= MinFullNameLength
    /\ Strip(r.username) = <<>> \/ Len(Strip(r.username)) >= MinUsernameLength

-----------------------------------------------------------------------------
(* Claims about registration and login, under Spec *)

\* C1: a registration whose phone normalizes to the key an account already holds
\* (the username registration gives an account by default) fails with a
\* phone_number uniqueness error, and no two accounts hold the same key.
C1_DuplicatePhoneRejected ==
    /\ (/\ WellFormedRegistration(req)
        /\ \E i \in DOMAIN accounts : accounts[i].username = CanonicalKey(req.phone_number)
        /\ \A i \in DOMAIN accounts : accounts[i].email # Lower(Strip(req.email))
        /\ \A i \in DOMAIN accounts : accounts[i].username # Strip(req.username))
       => (resp.status = 400 /\ "phone_number" \in resp.errors /\ ~resp.tokens)
    /\ \A i, j \in DOMAIN accounts : accounts[i].username = accounts[j].username => i = j

\* C2: login hands out tokens only for an existing, active account that the
\* identifier names and whose stored credential the password matches.
C2_LoginOnlyWithValidCredentials ==
    (resp.op = "login" /\ (resp.tokens \/ resp.status = 200)) =>
        /\ resp.tokens /\ resp.status = 200
        /\ resp.user_id \in NamedByLogin(req)
        /\ check_password(req.password, accounts[resp.user_id].password)
        /\ accounts[resp.user_id].is_active

C2_Witness ==
    /\ resp.op = "login" /\ resp.tokens
    /\ req.phone_number = Phone1Intl
    /\ Len(accounts) = 2

\* C7: a registration with no username for an unused e-mail and phone creates the
\* account with username = normalized phone (which phone logins then resolve).
C7_RegistrationDefaultsUsernameToPhone ==
    (/\ WellFormedRegistration(req)
     /\ Strip(req.username) = <<>>
     /\ \A i \in DOMAIN accounts : accounts[i].username # CanonicalKey(req.phone_number)
     /\ \A i \in DOMAIN accounts : accounts[i].email # Lower(Strip(req.email)))
    => /\ resp.status = 201 /\ resp.tokens
       /\ resp.user_id \in DOMAIN accounts
       /\ accounts[resp.user_id].username = CanonicalKey(req.phone_number)

\* C10: a well-formed login that fails carries the error of its cause and no
\* tokens: not found, incorrect password, or disabled account.
C10_LoginErrorMatchesCause ==
    (WellFormedLogin(req) /\ resp.op = "login") =>
        LET named == NamedByLogin(req)
            key == IF Strip(req.email) # <<>> THEN "email" ELSE "phone_number"
        IN  /\ named = {} =>
                (resp.status = 400 /\ resp.errors = {key} /\ ~resp.tokens)
            /\ \A i \in named :
                /\ ~check_password(req.password, accounts[i].password) =>
                     (resp.status = 400 /\ resp.errors = {" Password"} /\ ~resp.tokens)
                /\ (check_password(req.password, accounts[i].password) /\ ~accounts[i].is_active) =>
                     (resp.status = 400 /\ resp.errors = {"non_field_errors"} /\ ~resp.tokens)

C10_Witness ==
    /\ WellFormedLogin(req) /\ resp.op = "login"
    /\ resp.errors = {"non_field_errors"}
    /\ \E i \in NamedByLogin(req) :
          check_password(req.password, accounts[i].password) /\ ~accounts[i].is_active

\* C11: a login that supplies both a non-blank e-mail and a non-blank phone, or
\* neither, is answered with a validation error; it resolves no account and gets
\* no tokens.
C11_LoginNeedsExactlyOneIdentifier ==
    (/\ req.op = "login"
     /\ (Strip(req.email) # <<>>) <=> (Strip(req.phone_number) # <<>>))
    => /\ resp.status = 400
       /\ resp.errors # {}
       /\ resp.user_id = 0
       /\ ~resp.tokens

\* both identifiers are well formed, name an active account and come with its password
C11_Witness ==
    /\ req.op = "login"
    /\ Strip(req.email) # <<>> /\ IsEmailAddress(Strip(req.email))
    /\ AcceptedPhone(req.phone_number)
    /\ \E i \in DOMAIN accounts :
          /\ accounts[i].email = Lower(Strip(req.email))
          /\ accounts[i].username = CanonicalKey(req.phone_number)
          /\ accounts[i].is_active
          /\ check_password(req.password, accounts[i].password)
    /\ resp.status = 400 /\ resp.errors = {"non_field_errors"}

\* C12: a registration that does not succeed, whatever the reason, leaves the
\* accounts and every other row as they were and hands out no tokens.
C12_FailedRegistrationWritesNothing ==
    [][(req = NoRequest /\ req'.op = "register" /\ resp'.status # 201)
       => /\ accounts' = accounts
          /\ resets' = resets
          /\ ~resp'.tokens /\ resp'.user_id = 0]_vars

\* a registration acceptable field by field that fails with an error raised in validate()
C12_Witness ==
    /\ WellFormedRegistration(req)
    /\ accounts # <<>>
    /\ resp.status = 500

\* two registrations in the hands of two workers that give the same e-mail or the
\* same phone
SameEmailOrPhone(d, e) ==
    \/ Lower(Strip(d.email)) = Lower(Strip(e.email))
    \/ CanonicalKey(d.phone_number) = CanonicalKey(e.phone_number)

-----------------------------------------------------------------------------
(* Claims about password reset, under SpecReset and SpecFault *)

\* two reset identifiers that denote the same e-mail address or the same phone
SameIdentifier(x, y) ==
    IF is_email(Strip(x)) \/ is_email(Strip(y))
    THEN Lower(Strip(x)) = Lower(Strip(y))
    ELSE CanonicalKey(x) = CanonicalKey(y)

\* the rows a confirm request names: issued for its identifier, with its code
NamedByConfirm(r) ==
    {k \in DOMAIN resets : /\ SameIdentifier(issuedFor[k], r.reset_identifier)
                           /\ resets[k].reset_code = Strip(r.reset_code)}

\* a confirm request with a policy-conforming password and matching confirmation
WellFormedConfirm(r) ==
    /\ r.op = "reset_confirm"
    /\ validate_password_strength(r.new_password) = "ok"
    /\ r.confirm_password = r.new_password

\* C3: no handler leaves behind a credential changed by a reset confirm whose
\* PasswordReset row still shows is_used = false.
C3_ResetConfirmAtomic ==
    \A k \in credChangedBy : resets[k].is_used

\* C4: a confirm succeeds only on a matching row that is unused and not past its
\* expiry (now <= expires_at); when every matching row is used or expired the
\* confirm fails and changes neither the accounts nor the reset rows.
C4_ConfirmNeedsValidCode ==
    [][(req = NoRequest /\ req'.op = "reset_confirm") =>
          LET valid == {k \in NamedByConfirm(req') :
                           ~resets[k].is_used /\ now <= resets[k].expires_at}
          IN  /\ resp'.status = 200 => valid # {}
              /\ valid = {} => /\ resp'.status # 200
                               /\ accounts' = accounts
                               /\ resets' = resets]_vars

\* a successful confirm with a code whose row had just reached its expiry minute
C4_Witness ==
    /\ req.op = "reset_confirm" /\ resp.status = 200
    /\ \E k \in NamedByConfirm(req) : resets[k].is_used /\ resets[k].used_at = resets[k].expires_at
    /\ \E k \in DOMAIN resets : ~resets[k].is_used

\* C5: no identifier and code succeed in a confirm twice.
C5_CodeNeverReused ==
    \A i, j \in DOMAIN confirmLog : confirmLog[i] = confirmLog[j] => i = j

\* C6: a confirm that gives the identifier of a successful request, the code
\* issued for it, within its 15 minutes, and a conforming password, succeeds,
\* sets that account's credential and marks that row used.
C6_ConfirmAfterRequestSucceeds ==
    /\ (/\ WellFormedConfirm(req)
        /\ \E k \in DOMAIN resets : /\ issuedFor[k] = req.reset_identifier
                                    /\ resets[k].reset_code = req.reset_code
                                    /\ ~resets[k].is_used
                                    /\ now <= resets[k].expires_at)
       => resp.status = 200
    /\ (req.op = "reset_confirm" /\ resp.status = 200)
       => \E k \in NamedByConfirm(req) :
             /\ resets[k].is_used /\ resets[k].used_at = now
             /\ accounts[resets[k].user].password = make_password(req.new_password)

\* the password and the confirmation a registration or a reset confirm carries
RequestPassword(r) == IF r.op = "register" THEN Strip(r.password) ELSE Strip(r.new_password)
RequestConfirmation(r) == Strip(r.confirm_password)

\* the accounts whose credential a step stores: new rows, and rows whose password changes
CredentialsStored ==
    {i \in DOMAIN accounts' : i \notin DOMAIN accounts \/ accounts'[i].password # accounts[i].password}

\* C13: a step that stores a credential is a registration or a reset confirm whose
\* password has at least 8 characters, an uppercase and a lowercase letter and
\* equals its confirmation, and the credential is for that password; so a request
\* failing the policy or the match changes no credential.
C13_StoredCredentialsMeetPolicy ==
    [][CredentialsStored # {}
       => /\ req'.op \in {"register", "reset_confirm"}
          /\ Len(RequestPassword(req')) >= MinPasswordLength
          /\ \E i \in 1..Len(RequestPassword(req')) : RequestPassword(req')[i] \in UpperChars
          /\ \E i \in 1..Len(RequestPassword(req')) : RequestPassword(req')[i] \in LowerChars
          /\ RequestConfirmation(req') = RequestPassword(req')
          /\ \A i \in CredentialsStored :
                accounts'[i].password = make_password(RequestPassword(req'))]_vars

\* a reset confirm has replaced a credential
C13_Witness ==
    /\ req.op = "reset_confirm"
    /\ resp.status = 200
    /\ \E i \in DOMAIN accounts : accounts[i].password = make_password(PwB)

\* C26: a successful reset confirm changes the credential of exactly the
\* account the matched PasswordReset row was created for and marks exactly that
\* row used; every other account and every other row, other outstanding codes
\* of the same account included, stays as it was.
C26_ConfirmTouchesOneAccountOneRow ==
    [][(req = NoRequest /\ req'.op = "reset_confirm" /\ resp'.status = 200)
       => /\ DOMAIN resets' = DOMAIN resets
          /\ DOMAIN accounts' = DOMAIN accounts
          /\ \E k \in DOMAIN resets :
                /\ resets[k].reset_code = Strip(req'.reset_code)
                /\ ~resets[k].is_used
                /\ resets'[k].is_used
                /\ \A j \in DOMAIN resets \ {k} : resets'[j] = resets[j]
                /\ accounts'[resets[k].user] =
                      [accounts[resets[k].user] EXCEPT
                          !.password = make_password(Strip(req'.new_password))]
                /\ \A i \in DOMAIN accounts \ {resets[k].user} : accounts'[i] = accounts[i]]_vars

\* one of two outstanding codes of an account has been confirmed; the other is
\* still unused
C26_Witness ==
    /\ req.op = "reset_confirm"
    /\ resp.status = 200
    /\ \E k, j \in DOMAIN resets :
          /\ k # j
          /\ resets[k].user = resets[j].user
          /\ resets[k].is_used
          /\ ~resets[j].is_used

\* C27: after its creation a PasswordReset row changes only by being marked
\* used: used_at is set exactly when is_used is true, is_used never goes back to
\* false, and reset_code, the stored identifier, the account and expires_at
\* never change.
C27_ResetRowOnlyGetsUsed ==
    /\ [](\A k \in DOMAIN resets : (resets[k].used_at # NullTime) <=> resets[k].is_used)
    /\ [][\A k \in DOMAIN resets :
             /\ k \in DOMAIN resets'
             /\ resets[k].is_used => resets'[k].is_used
             /\ resets'[k].reset_code = resets[k].reset_code
             /\ resets'[k].phone_number = resets[k].phone_number
             /\ resets'[k].user = resets[k].user
             /\ resets'[k].expires_at = resets[k].expires_at
             /\ resets'[k].created_at = resets[k].created_at]_vars

\* a row has been marked used some time after it was created
C27_Witness ==
    /\ req.op = "reset_confirm"
    /\ resp.status = 200
    /\ \E k \in DOMAIN resets :
          /\ resets[k].is_used
          /\ resets[k].used_at = now
          /\ resets[k].used_at > resets[k].created_at

-----------------------------------------------------------------------------
(* Claims about phone numbers, under SpecPhone *)

\* '+233' then nine digits, with spaces or dashes among the nine
IsSeparatedInternational(s) ==
    /\ StartsWith(s, CountryPrefix)
    /\ \A i \in (Len(CountryPrefix) + 1)..Len(s) : s[i] \in DigitChars \cup SeparatorChars
    /\ Len(DigitsOf(SliceFrom(s, Len(CountryPrefix)))) = NationalDigits

\* '0' then nine digits, with spaces or dashes among the ten
IsSeparatedLocal(s) ==
    /\ \A i \in 1..Len(s) : s[i] \in DigitChars \cup SeparatorChars
    /\ Len(DigitsOf(s)) = LocalDigits
    /\ DigitsOf(s)[1] = "0"

\* C8: all four normalizers map '+233' + d and '0' + d, for nine digits d with
\* spaces or dashes among them, to the 12 digits '233' + d.
C8_NormalizersAgreeOnCanonicalKey ==
    (norm_out # NoNormalized /\ (IsSeparatedInternational(phone_input) \/ IsSeparatedLocal(phone_input)))
    => LET d == IF IsSeparatedInternational(phone_input)
                THEN DigitsOf(SliceFrom(phone_input, Len(CountryPrefix)))
                ELSE Tail(DigitsOf(phone_input))
           key == <<"2", "3", "3">> \o d
       IN  /\ Len(key) = 12
           /\ norm_out.registration = key
           /\ norm_out.login = key
           /\ norm_out.reset_request = key
           /\ norm_out.reset_confirm = key

C8_Witness ==
    /\ norm_out # NoNormalized
    /\ IsSeparatedLocal(phone_input)
    /\ Contains(phone_input, "-")
    /\ norm_out.registration = Phone1Key

\* C9: registration and login answer a phone that is in neither accepted form
\* with a phone_number validation error, create no account and issue no tokens.
C9_MalformedPhoneRejected ==
    [][(/\ req = NoRequest
        /\ req'.op \in {"register", "login"}
        /\ Strip(req'.phone_number) # <<>> \/ req'.op = "register"
        /\ ~AcceptedPhone(req'.phone_number))
       => /\ resp'.status = 400
          /\ "phone_number" \in resp'.errors
          /\ ~resp'.tokens /\ resp'.user_id = 0
          /\ accounts' = accounts]_vars

C9_Witness ==
    /\ req.op = "login"
    /\ req.email = <<>>
    /\ Len(Unseparated(req.phone_number)) = LocalDigits
    /\ Contains(req.phone_number, "x")
    /\ resp.status = 400 /\ resp.errors = {"phone_number"}

-----------------------------------------------------------------------------
(* A catalogue with products in it.  Products come from the admin site, since
   POST /products/ never stores one; the requests work on what is there. *)

\* the two products of the seed and a pk that no product has
ProductPks == 1..3

Mac == <<"M", "a", "c">>
Lg == <<"L", "g">>

\* discount_price as sent alone, in whole cedis
ProductDiscounts == {NoDiscount, 5, 20}

\* price and discount_price as sent together: a discount below the price, one
\* above it, none
ProductPricings == {<<20, 5>>, <<10, 20>>, <<10, NoDiscount>>}

ProductLabels ==
    {[name |-> Mac, slug |-> <<"m", "a", "c">>], [name |-> Lg, slug |-> <<"l", "g">>],
     [name |-> Dj, slug |-> <<"d", "j">>]}

\* bodies of POST and PUT
ProductBodies ==
    {[given |-> {"name", "slug", "price", "discount_price", "category"},
      name |-> l.name, slug |-> l.slug, price |-> pd[1], discount_price |-> pd[2],
      category |-> 1, is_active |-> TRUE] :
        l \in ProductLabels, pd \in ProductPricings}

\* bodies of PATCH
ProductPatches ==
    {[given |-> {"discount_price"}, name |-> <<>>, slug |-> <<>>, price |-> NoPrice,
      discount_price |-> dp, category |-> 1, is_active |-> TRUE] : dp \in ProductDiscounts}
    \cup
    {[given |-> {"price", "discount_price"}, name |-> <<>>, slug |-> <<>>, price |-> pd[1],
      discount_price |-> pd[2], category |-> 1, is_active |-> TRUE] :
        pd \in ProductPricings}
    \cup
    {[given |-> {"is_active"}, name |-> <<>>, slug |-> <<>>, price |-> NoPrice,
      discount_price |-> NoDiscount, category |-> 1, is_active |-> a] : a \in BOOLEAN}

\* a product row as the admin form stores it
AdminProduct(label, price, discount_price, category) ==
    [name |-> label.name, slug |-> label.slug, description |-> label.name,
     price |-> price, discount_price |-> discount_price,
     sku |-> label.slug, brand |-> Lg, category |-> category,
     stock_quantity |-> 5, low_stock_threshold |-> 2, track_inventory |-> TRUE,
     is_active |-> TRUE, is_featured |-> TRUE, availability_status |-> "in_stock"]

\* a chain of three categories: Av, Dj below it, Hi below Dj
SeedCategories ==
    (1 :> [name |-> Av, slug |-> <<"a", "v">>, parent |-> NoParent, is_active |-> TRUE])
    @@ (2 :> [name |-> Dj, slug |-> <<"d", "j">>, parent |-> 1, is_active |-> TRUE])
    @@ (3 :> [name |-> Hi, slug |-> <<"h", "i">>, parent |-> 2, is_active |-> TRUE])

\* a discounted product on the leaf and a product without discount on the root
SeedProducts ==
    (1 :> AdminProduct([name |-> Mac, slug |-> <<"m", "a", "c">>], 20, 5, 3))
    @@ (2 :> AdminProduct([name |-> Lg, slug |-> <<"l", "g">>], 10, NoDiscount, 1))

InitCatalog ==
    /\ accounts = <<>>
    /\ resets = <<>>
    /\ now = 0
    /\ req = NoRequest
    /\ resp = NoResponse
    /\ confirmLog = <<>>
    /\ credChangedBy = {}
    /\ issuedFor = <<>>
    /\ phone_input = <<>>
    /\ norm_out = NoNormalized
    /\ NoRegistrationsInFlight
    /\ categories = SeedCategories
    /\ category_seq = 3
    /\ products = SeedProducts

ProductCreate(d) ==
    /\ req = NoRequest
    /\ req' = [op |-> "product_create", pk |-> 0, d |-> d]
    /\ resp' = product_create(d)
    /\ UNCHANGED <<authVars, raceVars, catalogVars>>

ProductUpdate(pk, d) ==
    /\ req = NoRequest
    /\ req' = [op |-> "product_update", pk |-> pk, d |-> d]
    /\ resp' = product_update(pk, d, FALSE).resp
    /\ products' = product_update(pk, d, FALSE).products
    /\ UNCHANGED <<authVars, raceVars, categories, category_seq>>

ProductPartialUpdate(pk, d) ==
    /\ req = NoRequest
    /\ req' = [op |-> "product_partial_update", pk |-> pk, d |-> d]
    /\ resp' = product_update(pk, d, TRUE).resp
    /\ products' = product_update(pk, d, TRUE).products
    /\ UNCHANGED <<authVars, raceVars, categories, category_seq>>

ProductDestroy(pk) ==
    /\ req = NoRequest
    /\ req' = [op |-> "product_destroy", pk |-> pk]
    /\ resp' = product_destroy(pk).resp
    /\ products' = product_destroy(pk).products
    /\ UNCHANGED <<authVars, raceVars, categories, category_seq>>

ProductRetrieve(pk) ==
    /\ req = NoRequest
    /\ req' = [op |-> "product_retrieve", pk |-> pk]
    /\ resp' = product_retrieve(pk)
    /\ UNCHANGED <<authVars, raceVars, catalogVars>>

ProductCreateAny == \E d \in ProductBodies : ProductCreate(d)

ProductUpdateAny == \E pk \in ProductPks, d \in ProductBodies : ProductUpdate(pk, d)

ProductPartialUpdateAny ==
    \E pk \in ProductPks, d \in ProductPatches : ProductPartialUpdate(pk, d)

ProductDestroyAny == \E pk \in ProductPks : ProductDestroy(pk)

ProductRetrieveAny == \E pk \in ProductPks : ProductRetrieve(pk)

NextCatalog ==
    \/ CategoryPartialUpdateAny
    \/ CategoryDestroyAny
    \/ CategoryRetrieveAny
    \/ ProductCreateAny
    \/ ProductUpdateAny
    \/ ProductPartialUpdateAny
    \/ ProductDestroyAny
    \/ ProductRetrieveAny
    \/ Return

SpecCatalog == InitCatalog /\ [][NextCatalog]_vars

-----------------------------------------------------------------------------
(* Category parent updates handled at the same time.  No view opens a
   transaction or locks a row: get_object(), is_valid() and save() of one
   request are separate statements, and those of another request run between
   them. *)

\* the requests in flight
TreeWorkers == {1, 2}

TreeIdle == [pc |-> "idle"]

\* three categories without parents, or the chain of the seed
RaceForests ==
    {SeedCategories, [c \in DOMAIN SeedCategories |-> [SeedCategories[c] EXCEPT !.parent = NoParent]]}

\* PATCH bodies that set the parent
ParentPatches ==
    {[given |-> {"parent"}, name |-> <<>>, slug |-> <<>>, parent |-> p, is_active |-> TRUE] :
        p \in {NoParent} \cup DOMAIN SeedCategories}

InitTreeRace ==
    /\ accounts = <<>>
    /\ resets = <<>>
    /\ now = 0
    /\ req = NoRequest
    /\ resp = NoResponse
    /\ confirmLog = <<>>
    /\ credChangedBy = {}
    /\ issuedFor = <<>>
    /\ phone_input = <<>>
    /\ norm_out = NoNormalized
    /\ inflight = [w \in TreeWorkers |-> TreeIdle]
    /\ registeredWith = <<>>
    /\ categories \in RaceForests
    /\ category_seq = 3
    /\ products = <<>>

\* a worker takes PATCH /categories/{pk}/
TreeReceive(w, pk, d) ==
    /\ inflight[w].pc = "idle"
    /\ inflight' = [inflight EXCEPT ![w] = [pc |-> "get_object", pk |-> pk, d |-> d]]
    /\ UNCHANGED <<authVars, req, resp, registeredWith, catalogVars>>

\* UpdateModelMixin.update: instance = self.get_object()
TreeGetObject(w) ==
    /\ inflight[w].pc = "get_object"
    /\ inflight' = [inflight EXCEPT ![w] =
                       [pc |-> "is_valid", pk |-> inflight[w].pk, d |-> inflight[w].d,
                        instance |-> categories[inflight[w].pk]]]
    /\ UNCHANGED <<authVars, req, resp, registeredWith, catalogVars>>

\* UpdateModelMixin.update: serializer.is_valid(raise_exception=True), against
\* the rows as they are now.  A walk up the parents that never ends leaves the
\* worker where it is.
TreeIsValid(w) ==
    LET pk == inflight[w].pk
        d == inflight[w].d
        ferr == Category_field_errors(pk, d, TRUE)
        v == Category_validate(pk, d)
    IN  /\ inflight[w].pc = "is_valid"
        /\ inflight' =
              IF d.parent \in DOMAIN categories /\ Category_validate_parent(pk, d.parent) = "loops"
              THEN [inflight EXCEPT ![w].pc = "walking"]
              ELSE IF ferr # {}
              THEN [inflight EXCEPT ![w] = [pc |-> "done", pk |-> pk, d |-> d,
                                            resp |-> CatalogResponse("category_partial_update",
                                                                     400, ferr, NoBody)]]
              ELSE [inflight EXCEPT ![w] = [pc |-> "save", pk |-> pk, d |-> d,
                                            instance |-> inflight[w].instance,
                                            data |-> v.data]]
        /\ UNCHANGED <<authVars, req, resp, registeredWith, catalogVars>>

\* UpdateModelMixin.perform_update: serializer.save() writes the instance read
\* by get_object() with the validated keys set
TreeSave(w) ==
    /\ inflight[w].pc = "save"
    /\ categories' = [categories EXCEPT ![inflight[w].pk] =
                         Category_update(inflight[w].instance, inflight[w].data)]
    /\ inflight' = [inflight EXCEPT ![w] =
                       [pc |-> "done", pk |-> inflight[w].pk, d |-> inflight[w].d,
                        resp |-> CatalogResponse("category_partial_update", 200, {}, NoBody)]]
    /\ UNCHANGED <<authVars, req, resp, registeredWith, category_seq, products>>

\* the response is sent and the worker is free again
TreeRespond(w) ==
    /\ inflight[w].pc = "done"
    /\ inflight' = [inflight EXCEPT ![w] = TreeIdle]
    /\ UNCHANGED <<authVars, req, resp, registeredWith, catalogVars>>

TreeReceiveAny ==
    \E w \in TreeWorkers, pk \in DOMAIN SeedCategories, d \in ParentPatches : TreeReceive(w, pk, d)

TreeGetObjectAny == \E w \in TreeWorkers : TreeGetObject(w)

TreeIsValidAny == \E w \in TreeWorkers : TreeIsValid(w)

TreeSaveAny == \E w \in TreeWorkers : TreeSave(w)

TreeRespondAny == \E w \in TreeWorkers : TreeRespond(w)

NextTreeRace ==
    \/ TreeReceiveAny
    \/ TreeGetObjectAny
    \/ TreeIsValidAny
    \/ TreeSaveAny
    \/ TreeRespondAny

SpecTreeRace == InitTreeRace /\ [][NextTreeRace]_vars

-----------------------------------------------------------------------------
(* The product listing over catalogues of every small shape *)

MaxListed == 2

\* the rows the admin site may have stored
ListingRows ==
    {[AdminProduct([name |-> Mac, slug |-> <<"m", "a", "c">>], p, dp, 1) EXCEPT
         !.stock_quantity = sq, !.track_inventory = ti, !.is_active = a,
         !.availability_status = IF ti /\ sq <= 0 THEN "out_of_stock" ELSE "in_stock"] :
        p \in {10, 20}, dp \in {NoDiscount, 5}, sq \in {0, 5},
        ti \in BOOLEAN, a \in BOOLEAN}

\* slug and sku are unique: each row carries its pk in them
ListedProduct(q, row) ==
    [row EXCEPT !.slug = row.slug \o <<DecimalDigits[q + 1]>>,
                !.sku = row.sku \o <<DecimalDigits[q + 1]>>]

PriceTexts == {NoParam, <<"1", "5">>, <<"a", "b">>}

FlagTexts == {NoParam, TrueText, <<"n", "o">>}

ListingParams ==
    [min_price : PriceTexts, max_price : PriceTexts,
     in_stock_only : FlagTexts, on_sale : {NoParam, TrueText}]

InitListing ==
    /\ accounts = <<>>
    /\ resets = <<>>
    /\ now = 0
    /\ req = NoRequest
    /\ resp = NoResponse
    /\ confirmLog = <<>>
    /\ credChangedBy = {}
    /\ issuedFor = <<>>
    /\ phone_input = <<>>
    /\ norm_out = NoNormalized
    /\ NoRegistrationsInFlight
    /\ categories = SeedCategories
    /\ category_seq = 3
    /\ \E rows \in [1..MaxListed -> ListingRows] :
          products = [q \in 1..MaxListed |-> ListedProduct(q, rows[q])]

ProductList(params) ==
    /\ req = NoRequest
    /\ req' = [op |-> "product_list", params |-> params]
    /\ resp' = product_list(params)
    /\ UNCHANGED <<authVars, raceVars, catalogVars>>

ProductListAny == \E params \in ListingParams : ProductList(params)

NextListing == ProductListAny \/ Return

SpecListing == InitListing /\ [][NextListing]_vars

-----------------------------------------------------------------------------
(* Recommendations over shelves of every small shape *)

MaxShelf == 6

\* category, brand and is_active of a product on the shelf
ShelfKinds ==
    {<<1, Lg, TRUE>>, <<1, Mac, TRUE>>, <<3, Lg, TRUE>>, <<3, Mac, TRUE>>, <<1, Lg, FALSE>>}

ShelfProduct(q, kind) ==
    [ListedProduct(q, AdminProduct([name |-> Mac, slug |-> <<"m", "a", "c">>], 20, 5, kind[1]))
        EXCEPT !.brand = kind[2], !.is_active = kind[3]]

\* product 1 is an active Lg product on category 1; the others are of any kind
InitShelf ==
    /\ accounts = <<>>
    /\ resets = <<>>
    /\ now = 0
    /\ req = NoRequest
    /\ resp = NoResponse
    /\ confirmLog = <<>>
    /\ credChangedBy = {}
    /\ issuedFor = <<>>
    /\ phone_input = <<>>
    /\ norm_out = NoNormalized
    /\ NoRegistrationsInFlight
    /\ categories = SeedCategories
    /\ category_seq = 3
    /\ \E kinds \in [2..MaxShelf -> ShelfKinds] :
          products = [q \in 1..MaxShelf |->
                        ShelfProduct(q, IF q = 1 THEN <<1, Lg, TRUE>> ELSE kinds[q])]

ProductRecommendations(pk) ==
    /\ req = NoRequest
    /\ req' = [op |-> "product_recommendations", pk |-> pk]
    /\ resp' = product_recommendations(pk)
    /\ UNCHANGED <<authVars, raceVars, catalogVars>>

ProductRecommendationsAny == \E pk \in 1..(MaxShelf + 1) : ProductRecommendations(pk)

NextShelf == ProductRecommendationsAny \/ Return

SpecShelf == InitShelf /\ [][NextShelf]_vars

-----------------------------------------------------------------------------
(* Every product endpoint over stores of every small shape: two products the
   admin site stored, active or not, with any inventory settings *)

\* the two products of the store and a pk that no product has
StorePks == 1..3

\* the rows the admin site may have stored, availability_status as the form
\* was filled in
StoreRows ==
    {[AdminProduct([name |-> Mac, slug |-> <<"m", "a", "c">>], 20, 5, 1) EXCEPT
         !.stock_quantity = sq, !.track_inventory = ti, !.is_active = a,
         !.availability_status = st] :
        sq \in {0, 5}, ti \in BOOLEAN, a \in BOOLEAN,
        st \in {"in_stock", "out_of_stock"}}

\* query parameters sent along with a request to a detail route
StoreParams ==
    [min_price : {NoParam}, max_price : {NoParam},
     in_stock_only : {NoParam}, on_sale : {NoParam, TrueText}]

\* query parameters of GET /products/
StoreListParams ==
    [min_price : {NoParam, <<"1", "5">>}, max_price : {NoParam},
     in_stock_only : {NoParam, TrueText}, on_sale : {NoParam, TrueText}]

\* the inventory keys of a body: the keys sent, track_inventory, stock_quantity
StoreInventory ==
    {<<{}, TRUE, 0>>, <<{"track_inventory"}, FALSE, 0>>,
     <<{"track_inventory", "stock_quantity"}, TRUE, 0>>,
     <<{"track_inventory", "stock_quantity"}, TRUE, 5>>}

\* bodies of POST and PUT
StoreBodies ==
    {[given |-> {"name", "slug", "price", "category"} \cup inv[1],
      name |-> l.name, slug |-> l.slug, price |-> 20, discount_price |-> NoDiscount,
      category |-> 1, is_active |-> TRUE,
      track_inventory |-> inv[2], stock_quantity |-> inv[3]] :
        l \in {[name |-> Mac, slug |-> <<"m", "a", "c">>],
               [name |-> Dj, slug |-> <<"d", "j">>]},
        inv \in StoreInventory}

\* bodies of PATCH: is_active alone, or inventory keys alone
StorePatches ==
    {[given |-> {"is_active"}, name |-> <<>>, slug |-> <<>>, price |-> NoPrice,
      discount_price |-> NoDiscount, category |-> 1, is_active |-> a,
      track_inventory |-> TRUE, stock_quantity |-> 0] : a \in BOOLEAN}
    \cup
    {[given |-> inv[1], name |-> <<>>, slug |-> <<>>, price |-> NoPrice,
      discount_price |-> NoDiscount, category |-> 1, is_active |-> TRUE,
      track_inventory |-> inv[2], stock_quantity |-> inv[3]] :
        inv \in {i \in StoreInventory : i[1] # {}}}

\* the q of GET /products/search/
StoreQueries == {<<>>, <<"m", "a">>, <<"L", "G">>, <<"x">>}

InitStore ==
    /\ accounts = <<>>
    /\ resets = <<>>
    /\ now = 0
    /\ req = NoRequest
    /\ resp = NoResponse
    /\ confirmLog = <<>>
    /\ credChangedBy = {}
    /\ issuedFor = <<>>
    /\ phone_input = <<>>
    /\ norm_out = NoNormalized
    /\ NoRegistrationsInFlight
    /\ categories = SeedCategories
    /\ category_seq = 3
    /\ \E rows \in [1..2 -> StoreRows] :
          products = [q \in 1..2 |-> ListedProduct(q, rows[q])]

StoreCreate(d) ==
    /\ req = NoRequest
    /\ req' = [op |-> "product_create", pk |-> 0, d |-> d]
    /\ resp' = product_create(d)
    /\ UNCHANGED <<authVars, raceVars, catalogVars>>

StoreUpdate(pk, params, d) ==
    /\ req = NoRequest
    /\ req' = [op |-> "product_update", pk |-> pk, params |-> params, d |-> d]
    /\ resp' = product_detail("product_update", params, pk,
                              product_update(pk, d, FALSE)).resp
    /\ products' = product_detail("product_update", params, pk,
                                  product_update(pk, d, FALSE)).products
    /\ UNCHANGED <<authVars, raceVars, categories, category_seq>>

StorePartialUpdate(pk, params, d) ==
    /\ req = NoRequest
    /\ req' = [op |-> "product_partial_update", pk |-> pk, params |-> params, d |-> d]
    /\ resp' = product_detail("product_partial_update", params, pk,
                              product_update(pk, d, TRUE)).resp
    /\ products' = product_detail("product_partial_update", params, pk,
                                  product_update(pk, d, TRUE)).products
    /\ UNCHANGED <<authVars, raceVars, categories, category_seq>>

StoreDestroy(pk, params) ==
    /\ req = NoRequest
    /\ req' = [op |-> "product_destroy", pk |-> pk, params |-> params]
    /\ resp' = product_detail("product_destroy", params, pk, product_destroy(pk)).resp
    /\ products' = product_detail("product_destroy", params, pk,
                                  product_destroy(pk)).products
    /\ UNCHANGED <<authVars, raceVars, categories, category_seq>>

StoreRetrieve(pk, params) ==
    /\ req = NoRequest
    /\ req' = [op |-> "product_retrieve", pk |-> pk, params |-> params]
    /\ resp' = product_detail("product_retrieve", params, pk,
                              [resp |-> product_retrieve(pk), products |-> products]).resp
    /\ UNCHANGED <<authVars, raceVars, catalogVars>>

StoreRecommendations(pk, params) ==
    /\ req = NoRequest
    /\ req' = [op |-> "product_recommendations", pk |-> pk, params |-> params]
    /\ resp' = product_detail("product_recommendations", params, pk,
                              [resp |-> product_recommendations(pk),
                               products |-> products]).resp
    /\ UNCHANGED <<authVars, raceVars, catalogVars>>

StoreSearch(query) ==
    /\ req = NoRequest
    /\ req' = [op |-> "product_search", q |-> query]
    /\ resp' = product_search(query)
    /\ UNCHANGED <<authVars, raceVars, catalogVars>>

StoreFeatured ==
    /\ req = NoRequest
    /\ req' = [op |-> "product_featured"]
    /\ resp' = product_featured
    /\ UNCHANGED <<authVars, raceVars, catalogVars>>

StoreCreateAny == \E d \in StoreBodies : StoreCreate(d)

StoreUpdateAny ==
    \E pk \in StorePks, params \in StoreParams, d \in StoreBodies : StoreUpdate(pk, params, d)

StorePartialUpdateAny ==
    \E pk \in StorePks, params \in StoreParams, d \in StorePatches :
        StorePartialUpdate(pk, params, d)

StoreDestroyAny == \E pk \in StorePks, params \in StoreParams : StoreDestroy(pk, params)

StoreRetrieveAny == \E pk \in StorePks, params \in StoreParams : StoreRetrieve(pk, params)

StoreRecommendationsAny ==
    \E pk \in StorePks, params \in StoreParams : StoreRecommendations(pk, params)

StoreListAny == \E params \in StoreListParams : ProductList(params)

StoreSearchAny == \E query \in StoreQueries : StoreSearch(query)

NextStore ==
    \/ StoreCreateAny
    \/ StoreUpdateAny
    \/ StorePartialUpdateAny
    \/ StoreDestroyAny
    \/ StoreRetrieveAny
    \/ StoreRecommendationsAny
    \/ StoreListAny
    \/ StoreSearchAny
    \/ StoreFeatured
    \/ Return

SpecStore == InitStore /\ [][NextStore]_vars

-----------------------------------------------------------------------------
(* Claims about whose account a phone number names, under SpecOwner *)

\* the accounts that were registered with a phone whose key is that of s
RegisteredWithPhone(s) ==
    {i \in DOMAIN accounts : registeredWith[i] = CanonicalKey(s)}

\* C25: a login or a reset request by phone P resolves only to an account that
\* was registered with a phone normalizing to P; an account registered with
\* another phone under a chosen username equal to the key of P is never
\* resolved for P and never blocks the owner of P from registering.
C25_PhoneNamesItsOwnerOnly ==
    /\ (req.op = "login" /\ Strip(req.email) = <<>> /\ resp.status = 200)
          => resp.user_id \in RegisteredWithPhone(req.phone_number)
    /\ (req.op = "reset_request" /\ ~is_email(Strip(req.reset_identifier))
        /\ resp.status = 200)
          => resets[Len(resets)].user \in RegisteredWithPhone(req.reset_identifier)
    /\ (req.op = "register" /\ WellFormedRegistration(req)
        /\ RegisteredWithPhone(req.phone_number) = {}
        /\ \A i \in DOMAIN accounts : accounts[i].email # Lower(Strip(req.email)))
          => resp.status = 201

-----------------------------------------------------------------------------
(* Claims about the category tree, under SpecTree *)

\* the parents of the categories in S
ParentsOf(S) == {categories[c].parent : c \in S \cap DOMAIN categories} \ {NoParent}

RECURSIVE UpClosure(_, _)
UpClosure(S, n) == IF n = 0 THEN S ELSE UpClosure(S \cup ParentsOf(S), n - 1)

\* the categories on c's parent chain, c itself left out unless the chain returns to it
StrictAncestors(c) == UpClosure(ParentsOf({c}), Cardinality(DOMAIN categories))

\* c and every category below it
Subtree(c) == {x \in DOMAIN categories : x = c \/ c \in StrictAncestors(x)}

\* C15: after any sequence of category create, update, partial update and delete
\* requests no category is on its own parent chain.
C15_CategoryTreeAcyclic ==
    \A c \in DOMAIN categories : c \notin StrictAncestors(c)

\* an update has just moved a category under another, making a chain of three
C15_Witness ==
    /\ req.op = "category_update"
    /\ resp.status = 200
    /\ req.d.parent # NoParent
    /\ \E c \in DOMAIN categories : Cardinality(StrictAncestors(c)) = 2

\* what else an update needs to be valid: a name of two characters or more and a
\* slug, neither held by another category (PUT sends both)
OtherwiseValidCategoryUpdate(r) ==
    /\ r.op = "category_update" => {"name", "slug"} \subseteq r.d.given
    /\ "name" \in r.d.given =>
          /\ Len(Strip(r.d.name)) >= MinCategoryNameLength
          /\ \A c \in DOMAIN categories \ {r.pk} : categories[c].name # Strip(r.d.name)
          /\ \A c \in DOMAIN categories \ {r.pk} :
                categories[c].slug # (IF "slug" \in r.d.given THEN r.d.slug
                                      ELSE slugify(Strip(r.d.name)))
    /\ "slug" \in r.d.given =>
          /\ IsSlug(r.d.slug)
          /\ \A c \in DOMAIN categories \ {r.pk} : categories[c].slug # r.d.slug

\* C16: an update that sets the parent to the category itself or into its own
\* subtree fails with a validation error on parent and leaves the tree as it was;
\* an otherwise valid update to a parent outside the subtree succeeds and stores it.
C16_ParentUpdateRejectsOwnSubtree ==
    [][(/\ req = NoRequest
        /\ req'.op \in {"category_update", "category_partial_update"}
        /\ req'.pk \in DOMAIN categories
        /\ "parent" \in req'.d.given
        /\ req'.d.parent \in DOMAIN categories)
       => IF req'.d.parent \in Subtree(req'.pk)
          THEN /\ resp'.status = 400
               /\ "parent" \in resp'.errors
               /\ categories' = categories
          ELSE OtherwiseValidCategoryUpdate(req')
               => /\ resp'.status = 200
                  /\ categories'[req'.pk].parent = req'.d.parent]_vars

\* an update to a grandchild as parent has been refused
C16_Witness ==
    /\ req.op = "category_update"
    /\ resp.status = 400 /\ resp.errors = {"parent"}
    /\ req.d.parent \in DOMAIN categories
    /\ req.pk \in StrictAncestors(req.d.parent)
    /\ categories[req.d.parent].parent # req.pk

\* C17: destroy on a category removes no rows: it sets is_active to false on the
\* category and on every category below it, and leaves the other categories and
\* every product as they were.
C17_DestroyDeactivatesSubtree ==
    [][(/\ req = NoRequest
        /\ req'.op = "category_destroy"
        /\ req'.pk \in DOMAIN categories)
       => /\ DOMAIN categories' = DOMAIN categories
          /\ \A c \in DOMAIN categories :
                categories'[c] = IF c \in Subtree(req'.pk)
                                 THEN [categories[c] EXCEPT !.is_active = FALSE]
                                 ELSE categories[c]
          /\ products' = products]_vars

-----------------------------------------------------------------------------
(* Claims about the catalogue with products, under SpecCatalog *)

\* b lists c's parent chain: the root first, each entry the parent of the next,
\* c last, every entry the id, name and slug of its category
IsBreadcrumbTrail(b, c) ==
    /\ Len(b) = Cardinality(StrictAncestors(c)) + 1
    /\ {b[i].id : i \in 1..Len(b)} = {c} \cup StrictAncestors(c)
    /\ b[Len(b)].id = c
    /\ categories[b[1].id].parent = NoParent
    /\ \A i \in 1..(Len(b) - 1) : categories[b[i + 1].id].parent = b[i].id
    /\ \A i \in 1..Len(b) :
          b[i] = [id |-> b[i].id, name |-> categories[b[i].id].name,
                  slug |-> categories[b[i].id].slug]

\* C20: the breadcrumbs of a category, and the category breadcrumbs of a product,
\* are the id, name and slug of exactly the categories on the parent chain, the
\* root first and the category itself last.
C20_BreadcrumbsAreTheParentChain ==
    /\ (req # NoRequest /\ req.op = "category_retrieve" /\ req.pk \in DOMAIN categories)
          => /\ resp.status = 200
             /\ IsBreadcrumbTrail(resp.body.breadcrumbs, req.pk)
    /\ (req # NoRequest /\ req.op = "product_retrieve" /\ req.pk \in Product_queryset)
          => /\ resp.status = 200
             /\ IsBreadcrumbTrail(resp.body.breadcrumbs, products[req.pk].category)

\* a category two levels down has been retrieved after the tree was rearranged
C20_Witness ==
    /\ req # NoRequest
    /\ req.op = "category_retrieve"
    /\ resp.status = 200
    /\ Len(resp.body.breadcrumbs) = 3
    /\ resp.body.breadcrumbs[1].id > resp.body.breadcrumbs[3].id

\* C18: every product references an existing category, and destroy of a category
\* fails and removes nothing while a product references it or a category that
\* would be removed with it.
C18_ReferencedCategoriesStay ==
    /\ [](\A q \in DOMAIN products : products[q].category \in DOMAIN categories)
    /\ [][(/\ req = NoRequest
           /\ req'.op = "category_destroy"
           /\ req'.pk \in DOMAIN categories
           /\ \E q \in DOMAIN products : products[q].category \in Subtree(req'.pk))
          => /\ resp'.status >= 400
             /\ categories' = categories
             /\ products' = products]_vars

\* the destroy of a category was refused for a product on a category below it,
\* and another category, freed of its product, has been destroyed before
C18_Witness ==
    /\ req # NoRequest
    /\ req.op = "category_destroy"
    /\ resp.status = 500
    /\ \A q \in DOMAIN products : products[q].category # req.pk
    /\ \E q \in DOMAIN products : products[q].category \in Subtree(req.pk)
    /\ DOMAIN categories # DOMAIN SeedCategories

\* the price and the discount a product request would leave in the row
PriceAfter(r) ==
    IF "price" \in r.d.given THEN r.d.price ELSE products[r.pk].price

DiscountAfter(r) ==
    IF "discount_price" \in r.d.given THEN r.d.discount_price
    ELSE products[r.pk].discount_price

WouldStoreDiscountNotBelowPrice(r) ==
    /\ r.op \in {"product_create", "product_update", "product_partial_update"}
    /\ r.op # "product_create" => r.pk \in Product_queryset
    /\ DiscountAfter(r) # NoDiscount
    /\ DiscountAfter(r) >= PriceAfter(r)

\* C19: every stored product with a discount has discount_price below price, and
\* a request that would store a discount_price not below the price is rejected
\* and changes nothing.
C19_DiscountBelowPrice ==
    /\ [](\A q \in DOMAIN products :
            products[q].discount_price # NoDiscount
               => products[q].discount_price < products[q].price)
    /\ [][(req = NoRequest /\ WouldStoreDiscountNotBelowPrice(req'))
          => /\ resp'.status = 400
             /\ products' = products]_vars

\* the ids of a list, as a set
IdsOf(ids) == {ids[i] : i \in 1..Len(ids)}

\* C21: for every category c descendant collection returns exactly the ids of
\* the active categories in the subtree below c, each once and without c,
\* whatever the active flags of the categories between c and them.
C21_DescendantsAreTheActiveSubtree ==
    \A c \in DOMAIN categories :
        LET ids == Category_get_descendant_ids(c).ids
        IN  /\ IdsOf(ids) = {x \in Subtree(c) \ {c} : categories[x].is_active}
            /\ Cardinality(IdsOf(ids)) = Len(ids)

-----------------------------------------------------------------------------
(* Claims about the product listing, under SpecListing *)

\* the products a listing with these parameters is to return
ListingExpected(params) ==
    {q \in DOMAIN products :
        /\ products[q].is_active
        /\ IsDigit(params.min_price) => products[q].price >= DecimalValue(params.min_price)
        /\ IsDigit(params.max_price) => products[q].price <= DecimalValue(params.max_price)
        /\ params.in_stock_only = TrueText
              => (~products[q].track_inventory \/ products[q].stock_quantity > 0)
        /\ params.on_sale = TrueText
              => /\ products[q].discount_price # NoDiscount
                 /\ products[q].discount_price < products[q].price}

\* C22: the product listing returns exactly the active products that satisfy
\* every supplied filter at once, ignores a price bound that is no number, and
\* no combination of filters produces an error.
C22_ListingAppliesEveryFilter ==
    (req # NoRequest /\ req.op = "product_list")
       => /\ resp.status = 200
          /\ resp.body.ids = ListingExpected(req.params)

-----------------------------------------------------------------------------
(* Claims about recommendations, under SpecShelf *)

\* the active products other than p of p's category, and of p's brand
SameCategoryAs(p) ==
    {q \in DOMAIN products \ {p} :
        products[q].is_active /\ products[q].category = products[p].category}

SameBrandAs(p) ==
    {q \in DOMAIN products \ {p} :
        products[q].is_active /\ products[q].brand = products[p].brand}

Smaller(a, b) == IF a < b THEN a ELSE b

-----------------------------------------------------------------------------
(* Claims about category updates handled at the same time, under SpecTreeRace *)

\* C24: for any interleaving of concurrent category parent updates, each
\* validated against the tree as it was before the other wrote, no category is
\* ever on its own parent chain.
C24_ConcurrentUpdatesKeepTreeAcyclic ==
    \A c \in DOMAIN categories :
        c \notin UpClosure(ParentsOf({c}), Cardinality(DOMAIN categories))

\* C30: breadcrumb generation, the circular-reference check of a parent update
\* and descendant collection terminate for every category in every catalogue
\* state reachable through the category API, interleaved updates included.
C30_CategoryWalksTerminate ==
    /\ \A c \in DOMAIN categories :
          /\ ~Category_get_breadcrumbs(c).loops
          /\ ~Category_get_descendant_ids(c).overflow
          /\ \A value \in DOMAIN categories : Category_validate_parent(c, value) # "loops"
    /\ \A q \in DOMAIN products : ~Product_get_category_breadcrumbs(q).loops


-----------------------------------------------------------------------------
(* Claims about the product endpoints, under SpecStore *)

ProductWriteOps == {"product_update", "product_partial_update"}

ProductDetailOps ==
    ProductWriteOps \cup {"product_retrieve", "product_destroy", "product_recommendations"}

ProductListingOps ==
    {"product_list", "product_search", "product_featured", "product_recommendations"}

InventoryKeys == {"track_inventory", "stock_quantity"}

\* the ids an answer holds: list and search give them as a set, featured and
\* recommendations in order
ListedIds(answer) ==
    IF answer.op \in {"product_list", "product_search"} THEN answer.body.ids
    ELSE IdsOf(answer.body.ids)

\* C28: after an accepted product update or partial update the stored
\* availability_status agrees with the stored inventory fields (in_stock when
\* track_inventory is false, out_of_stock when track_inventory is true and
\* stock_quantity <= 0), and a request that supplies neither track_inventory
\* nor stock_quantity leaves availability_status as it was.
C28_StatusFollowsInventory ==
    [][(/\ req = NoRequest
        /\ req'.op \in ProductWriteOps
        /\ Product_get_object(req'.params, req'.pk) = 200
        /\ resp'.status \notin {400, 404})
       => LET before == products[req'.pk]
              stored == products'[req'.pk]
          IN  /\ ~stored.track_inventory => stored.availability_status = "in_stock"
              /\ stored.track_inventory /\ stored.stock_quantity <= 0
                    => stored.availability_status = "out_of_stock"
              /\ req'.d.given \cap InventoryKeys = {}
                    => stored.availability_status = before.availability_status]_vars

\* C29: a request to a detail route of an inactive product is answered with
\* 404 and changes nothing, an inactive product stays inactive, and no
\* listing, search, featured or recommendations answer holds an inactive
\* product.
C29_InactiveProductsStayHidden ==
    [][/\ (/\ req = NoRequest
           /\ req'.op \in ProductDetailOps
           /\ req'.pk \in DOMAIN products
           /\ ~products[req'.pk].is_active)
          => resp'.status = 404 /\ products' = products
       /\ \A q \in DOMAIN products :
             ~products[q].is_active
                => q \in DOMAIN products' /\ ~products'[q].is_active
       /\ (/\ req = NoRequest
           /\ req'.op \in ProductListingOps
           /\ resp'.status = 200)
          => \A q \in ListedIds(resp') :
                q \in DOMAIN products' /\ products'[q].is_active]_vars

=============================================================================
